---- MODULE Spec2Model ----
(***************************************************************************)
(* Request forwarding between a standby node and the active node           *)
(* (vault/request_forwarding.go): the connection tuple guarded by          *)
(* requestForwardingConnectionLock, the operations that establish and      *)
(* tear it down, ForwardRequest, and the TLS lookup callbacks that read    *)
(* the node's cluster identity.                                            *)
(***************************************************************************)
EXTENDS Integers, Sequences, FiniteSets, TLC

\* ------------------------------------------------------------------ bounds

\* Number of dial attempts (contexts created at line 270) in one behaviour.
MaxDials == 2

\* ------------------------------------------------------------- value sets

\* The nil value of rpcClientConn, rpcClientConnContext,
\* rpcClientConnCancelFunc and rpcForwardingClient; dial attempts are 1, 2, ...
NoConn == 0

\* Callers of the write-locked operations: the standby's leader-refresh
\* path calls refreshRequestForwardingConnection, the unseal path calls
\* startForwarding.
Refreshers == {"w1"}
Starters == {"w2"}
Writers == Refreshers \cup Starters
Forwarders == {"f1", "f2"}

\* The forwarders that call ForwardRequest under Spec.
Callers == {"f1"}

\* The identity the node rotates to under Spec.
RotatedIdentities == {"A"}

\* clusterAddr values: empty, unparsable, and the active node's address.
EmptyAddr == ""
BadAddr == ":bad"
ActiveAddr == "https://active:8201"
Addresses == {EmptyAddr, BadAddr, ActiveAddr}

\* Cluster identities; "none" is the typed nil stored before key generation.
NoIdentity == "none"
Identities == {"A", "B"}

\* Requests entering ForwardRequest: URL.Path as rewritten by local routing,
\* and the "original_request_path" value of the request context.
Requests == { [path |-> "/local/foo", orig |-> "/v1/secret/foo"] }

\* Header multimaps of a wire response: absent, or name -> ordered values.
NoHeader == [absent |-> TRUE, entries |-> <<>>]
HeaderOf(m) == [absent |-> FALSE, entries |-> m]

\* Wire responses the active node may send back (ForwardedResponse). Each
\* HeaderEntries value is an ordered list of values for that header name.
WireResponses ==
    { [StatusCode |-> 200, HeaderEntries |-> NoHeader, Body |-> "done"],
      [StatusCode |-> 503,
       HeaderEntries |-> HeaderOf([n \in {"X-Echo", "X-Test"} |->
                            IF n = "X-Echo" THEN <<"2", "1">> ELSE <<"ok">>]),
       Body |-> ""] }

\* ------------------------------------------------------------------ state

VARIABLES
    \* Core fields guarded by requestForwardingConnectionLock
    rpcClientConn,            \* attempt id of the transport handle, or NoConn
    rpcClientConnContext,     \* attempt id of the connection context, or NoConn
    rpcClientConnCancelFunc,  \* attempt id whose cancel handle is held, or NoConn
    rpcForwardingClient,      \* attempt id the forwarding client wraps, or NoConn
    clusterLeaderParams,      \* TRUE when leader parameters are cached
    \* every context/connection ever created by a refresh, by attempt id
    attempts,
    \* the shared cluster listener and its registrations under the ALPN tag
    clusterListener,          \* TRUE when getClusterListener() is non-nil
    alpnClient,               \* client identity registered (AddClient)
    alpnHandler,              \* inbound handler registered (AddHandler)
    fwRPCService,             \* its RPC server carries the forwarding service
    ha,                       \* c.ha != nil
    \* the three atomic cells of the cluster identity
    localClusterCert,
    localClusterParsedCert,
    localClusterPrivateKey,
    \* requestForwardingConnectionLock (sync.RWMutex)
    lockWriter,               \* writer that called Lock(): pending or holding
    lockReaders,              \* forwarders holding RLock()
    \* callers of startForwarding / refreshRequestForwardingConnection
    wpc, wop, waddr, wret, wctx, wcert,
    \* callers of ForwardRequest
    fpc, freq, forigPath, fsent, fwire, fresult,
    frpcs, ferrors,           \* RPCs issued, error metric increments, per call
    \* history: a self-active period is in force
    selfActive,               \* since startForwarding / refresh("") returned
    cleared,                  \* since their write-locked section ended
    \* a TLS handshake running one of the lookup callbacks
    hpc, hop, hcas, hparsed, hcert, hkey, hret,
    \* the header reconstruction at the end of ForwardRequest
    xpc, xresp, xkeys, xheader, xresult,
    \* one requestForwardingHandler instance
    rf_ha,                    \* its ha field, resolved at construction
    stopCh,                   \* "open" or "closed"
    fwRPCServer,              \* "serving" or "stopped"
    spc,                      \* position of the caller of Stop
    sleepLeft,                \* ticks left of Stop's sleep
    \* the caller of Handoff: the cluster listener
    closeCh,                  \* the close signal given with each connection
    shutdownWg,               \* its shutdown barrier (sync.WaitGroup counter)
    \* each connection handed off, and the two goroutines of its Handoff
    handed, tlsConn, closes, quitCh, watcher, serve,
    \* the RPC served on a connection, and the time it still needs
    rpc, rpcLeft, rpcShort,
    \* the PKI backend: its lock and the configuration it stores
    issuersLock,              \* handler holding b.issuersLock, or NoHolder
    legacyBundle,             \* b.useLegacyBundleCaStorage()
    issuersConfig,            \* stored issuerConfigEntry
    keysConfig,               \* stored keyConfigEntry
    \* callers of pathCAIssuersWrite / pathKeyDefaultWrite
    ppc, preq, pnewDefault, pparsed, pentry, pfollowOk, pfollowIssuer,
    pconfig, presponse, perr,
    pwrites                   \* configuration writes made by this call

connVars == <<rpcClientConn, rpcClientConnContext, rpcClientConnCancelFunc,
              rpcForwardingClient>>
listenerVars == <<clusterListener, alpnClient, alpnHandler, fwRPCService,
                  ha>>
identityVars == <<localClusterCert, localClusterParsedCert,
                  localClusterPrivateKey>>
lockVars == <<lockWriter, lockReaders>>
writerVars == <<wpc, wop, waddr, wret, wctx, wcert>>
forwarderVars == <<fpc, freq, forigPath, fsent, fwire, fresult, frpcs,
                   ferrors>>
historyVars == <<selfActive, cleared>>

handshakeVars == <<hpc, hop, hcas, hparsed, hcert, hkey, hret>>
headerVars == <<xpc, xresp, xkeys, xheader, xresult>>
handlerVars == <<rf_ha, stopCh, fwRPCServer, spc, sleepLeft>>
connectionVars == <<closeCh, shutdownWg, handed, tlsConn, closes, quitCh,
                    watcher, serve>>
rpcVars == <<rpc, rpcLeft, rpcShort>>
serverVars == <<handlerVars, connectionVars, rpcVars>>
storageVars == <<legacyBundle, issuersConfig, keysConfig>>
pathVars == <<ppc, preq, pnewDefault, pparsed, pentry, pfollowOk,
              pfollowIssuer, pconfig, presponse, perr, pwrites>>
pkiVars == <<issuersLock, storageVars, pathVars>>

vars == <<connVars, clusterLeaderParams, attempts, listenerVars, identityVars,
          lockVars, writerVars, forwarderVars, historyVars, handshakeVars,
          headerVars, serverVars, pkiVars>>

\* What the connection operations, the identity rotation, the handshake
\* callbacks and the header reconstruction each leave alone.
outsideCore == <<handshakeVars, headerVars, serverVars, pkiVars>>
outsideIdentity == <<handshakeVars, headerVars, serverVars, pkiVars>>
outsideHandshake ==
    <<connVars, clusterLeaderParams, attempts, listenerVars, identityVars,
      lockVars, writerVars, forwarderVars, historyVars, headerVars,
      serverVars, pkiVars>>
outsideHeader ==
    <<connVars, clusterLeaderParams, attempts, listenerVars, identityVars,
      lockVars, writerVars, forwarderVars, historyVars, handshakeVars,
      serverVars, pkiVars>>
outsideServer ==
    <<connVars, clusterLeaderParams, attempts, listenerVars, identityVars,
      lockVars, writerVars, forwarderVars, historyVars, handshakeVars,
      headerVars, pkiVars>>
outsidePKI ==
    <<connVars, clusterLeaderParams, attempts, listenerVars, identityVars,
      lockVars, writerVars, forwarderVars, historyVars, handshakeVars,
      headerVars, serverVars>>

NoWriter == "none"
\* A refresh that has not loaded localClusterParsedCert yet.
Unread == "unread"
NoRequest == [path |-> "", orig |-> ""]
\* No wire request has been generated.
NoPath == ""
NoResult == [status |-> -1, header |-> NoHeader, body |-> "", err |-> "pending"]

CoreInit ==
    /\ rpcClientConn = NoConn
    /\ rpcClientConnContext = NoConn
    /\ rpcClientConnCancelFunc = NoConn
    /\ rpcForwardingClient = NoConn
    /\ clusterLeaderParams = FALSE
    /\ attempts = <<>>
    /\ clusterListener = FALSE
    /\ alpnClient = FALSE
    /\ alpnHandler = FALSE
    /\ fwRPCService = FALSE
    /\ ha \in BOOLEAN
    /\ localClusterCert = NoIdentity
    /\ localClusterParsedCert = NoIdentity
    /\ localClusterPrivateKey = NoIdentity
    /\ lockWriter = NoWriter
    /\ lockReaders = {}
    /\ wpc = [w \in Writers |-> "idle"]
    /\ wop = [w \in Writers |-> "none"]
    /\ waddr = [w \in Writers |-> EmptyAddr]
    /\ wret = [w \in Writers |-> "none"]
    /\ wctx = [w \in Writers |-> NoConn]
    /\ wcert = [w \in Writers |-> Unread]
    /\ fpc = [f \in Forwarders |-> "idle"]
    /\ freq = [f \in Forwarders |-> NoRequest]
    /\ forigPath = [f \in Forwarders |-> ""]
    /\ fsent = [f \in Forwarders |-> NoConn]
    /\ fwire = [f \in Forwarders |-> NoPath]
    /\ frpcs = [f \in Forwarders |-> 0]
    /\ ferrors = [f \in Forwarders |-> 0]
    /\ fresult = [f \in Forwarders |-> NoResult]
    /\ selfActive = FALSE
    /\ cleared = FALSE

\* No handshake is under way.
NoCertificate ==
    [cert |-> NoIdentity, key |-> NoIdentity, leaf |-> NoIdentity,
     name |-> "", err |-> "nil"]

HandshakeInit ==
    /\ hpc = "idle"
    /\ hop = "none"
    /\ hcas = {}
    /\ hparsed = NoIdentity
    /\ hcert = NoIdentity
    /\ hkey = NoIdentity
    /\ hret = NoCertificate

\* No response is being turned into a result.
HeaderIdle ==
    /\ xpc = "off"
    /\ xresp = [StatusCode |-> 0, HeaderEntries |-> NoHeader, Body |-> ""]
    /\ xkeys = {}
    /\ xheader = NoHeader
    /\ xresult = NoResult

\* Connections the cluster listener hands to the forwarding handler.
MaxConns == 1
Conns == 1..MaxConns

\* Connections handed off each with a close signal of its own.
MaxWatched == 2
Watched == 1..MaxWatched

\* cluster.ListenerAcceptDeadline, in ticks of the clock.
ListenerAcceptDeadline == 2

\* A handler as NewRequestForwardingHandler returns it, serving, with no
\* connection handed to it yet.
ServerInit ==
    /\ rf_ha = ha
    /\ stopCh = "open"
    /\ fwRPCServer = "serving"
    /\ spc = "idle"
    /\ sleepLeft = 0
    /\ closeCh = [c \in Watched |-> "open"]
    /\ shutdownWg = 0
    /\ handed = [c \in Watched |-> "no"]
    /\ tlsConn = [c \in Watched |-> "none"]
    /\ closes = [c \in Watched |-> 0]
    /\ quitCh = [c \in Watched |-> "none"]
    /\ watcher = [c \in Watched |-> "none"]
    /\ serve = [c \in Watched |-> "none"]
    /\ rpc = [c \in Watched |-> "none"]
    /\ rpcLeft = [c \in Watched |-> 0]
    /\ rpcShort = [c \in Watched |-> FALSE]

\* ---------------------------------------------- PKI CA configuration state

NoHolder == "none"

\* Callers of pathCAIssuersWrite, one per route that reaches it, and of
\* pathKeyDefaultWrite.
IssuerWriters == {"i1", "i2"}
KeyWriters == {"k1"}
PKIWriters == IssuerWriters \cup KeyWriters

IssuersPath == "config/issuers"
ReplaceRootPath == "root/replace"
KeysPath == "config/keys"
PathOf(h) ==
    CASE h = "i1" -> IssuersPath
      [] h = "i2" -> ReplaceRootPath
      [] OTHER -> KeysPath

defaultRef == "default"
followRef == "default_follows_latest_issuer"

\* The fields each route declares, and the default of a declared field.
Schema(path) ==
    IF path = IssuersPath THEN {defaultRef, followRef} ELSE {defaultRef}
SchemaDefault(path, k) ==
    IF path = ReplaceRootPath /\ k = defaultRef THEN "next" ELSE ""

\* Raw request data: what the client sent for each field name.
NotSupplied == "<not supplied>"
NoRaw == [default |-> NotSupplied,
          default_follows_latest_issuer |-> NotSupplied]
RawRequests(path) ==
    CASE path = IssuersPath ->
           [default : {"issuer-a"},
            default_follows_latest_issuer : {NotSupplied, "true", "false"}]
             \cup [default : {"", "default", "missing"},
                   default_follows_latest_issuer : {"true"}]
      [] path = ReplaceRootPath ->
           [default : {NotSupplied},
            default_follows_latest_issuer : {NotSupplied, "true"}]
             \cup [default : {"default"},
                   default_follows_latest_issuer : {NotSupplied}]
      [] OTHER ->
           [default : {"", "default", "key-a", "missing"},
            default_follows_latest_issuer : {NotSupplied}]

\* framework.FieldData.Get and GetOk.
FieldGet(path, raw, k) ==
    IF raw[k] = NotSupplied THEN SchemaDefault(path, k) ELSE raw[k]
FieldGetOk(path, raw, k) ==
    IF k \notin Schema(path) \/ raw[k] = NotSupplied
      THEN [value |-> "", ok |-> FALSE]
      ELSE [value |-> raw[k], ok |-> TRUE]
ParseBool(v) == v = "true"

\* The issuers and keys in storage, by the names that refer to them.
ResolveIssuerReference(ref) ==
    CASE ref = "issuer-a" -> [id |-> "id-a", err |-> "nil"]
      [] ref = "next" -> [id |-> "id-next", err |-> "nil"]
      [] OTHER -> [id |-> "", err |-> "unable to find issuer"]
ResolveKeyReference(ref) ==
    CASE ref = "key-a" -> [id |-> "key-id-a", err |-> "nil"]
      [] OTHER -> [id |-> "", err |-> "unable to find key"]
NoEntry == [ID |-> "", KeyID |-> ""]
IssuerEntry(id) ==
    [ID |-> id, KeyID |-> IF id = "id-a" THEN "key-id-a" ELSE ""]

NoConfig == [DefaultIssuerId |-> "", DefaultFollowsLatestIssuer |-> FALSE]
NoResponse == [Data |-> [nil |-> TRUE], Warnings |-> 0]

\* logical.ErrorResponse and Response.IsError.
ErrorResponse(text) == [Data |-> [error |-> text], Warnings |-> 0]
IsError(resp) == "error" \in DOMAIN resp.Data

MigrationIssuersMsg == "Cannot update defaults until migration has completed"
MigrationKeysMsg == "Cannot update key defaults until migration has completed"
InvalidIssuerMsg ==
    "Invalid issuer specification; must be non-empty and can't be 'default'."
InvalidKeyMsg ==
    "Invalid key specification; must be non-empty and can't be 'default'."
ResolveIssuerMsg == "Error resolving issuer reference: "
FetchIssuerMsg == "Unable to fetch issuer: "
FetchConfigMsg == "Unable to fetch existing issuers configuration: "
UpdateIssuersMsg == "Error updating issuer configuration: "
ResolveKeyMsg == "Error resolving issuer reference: "
UpdateKeysMsg == "Error updating issuer configuration: "

PKIInit ==
    /\ issuersLock = NoHolder
    /\ legacyBundle = TRUE
    /\ issuersConfig = NoConfig
    /\ keysConfig = [DefaultKeyId |-> ""]
    /\ ppc = [h \in PKIWriters |-> "idle"]
    /\ preq = [h \in PKIWriters |-> NoRaw]
    /\ pnewDefault = [h \in PKIWriters |-> ""]
    /\ pparsed = [h \in PKIWriters |-> ""]
    /\ pentry = [h \in PKIWriters |-> NoEntry]
    /\ pfollowOk = [h \in PKIWriters |-> FALSE]
    /\ pfollowIssuer = [h \in PKIWriters |-> FALSE]
    /\ pconfig = [h \in PKIWriters |-> NoConfig]
    /\ presponse = [h \in PKIWriters |-> NoResponse]
    /\ perr = [h \in PKIWriters |-> "none"]
    /\ pwrites = [h \in PKIWriters |-> 0]

Init == CoreInit /\ HandshakeInit /\ HeaderIdle /\ ServerInit /\ PKIInit

\* ------------------------------------------------------------ environment

\* Cluster key rotation: the identity is replaced as a whole unit.
ReplaceIdentity(i) ==
    /\ localClusterCert' = i
    /\ localClusterParsedCert' = i
    /\ localClusterPrivateKey' = i
    /\ UNCHANGED <<connVars, clusterLeaderParams, attempts, listenerVars,
                   lockVars, writerVars, forwarderVars, historyVars>>
    /\ UNCHANGED outsideIdentity

WritersIdle == \A w \in Writers : wpc[w] = "idle"

\* The cluster listener is created on unseal; it starts with no registration.
StartClusterListener ==
    /\ WritersIdle
    /\ ~clusterListener
    /\ clusterListener' = TRUE
    /\ UNCHANGED <<alpnClient, alpnHandler, fwRPCService, ha>>
    /\ UNCHANGED <<connVars, clusterLeaderParams, attempts, identityVars,
                   lockVars, writerVars, forwarderVars, historyVars>>
    /\ UNCHANGED outsideCore

\* The cluster listener is dropped on seal, and its registrations with it.
StopClusterListener ==
    /\ WritersIdle
    /\ clusterListener
    /\ clusterListener' = FALSE
    /\ alpnClient' = FALSE
    /\ alpnHandler' = FALSE
    /\ fwRPCService' = FALSE
    /\ UNCHANGED ha
    /\ UNCHANGED <<connVars, clusterLeaderParams, attempts, identityVars,
                   lockVars, writerVars, forwarderVars, historyVars>>
    /\ UNCHANGED outsideCore

\* A leader lookup caches the active node's parameters.
StoreLeaderParams ==
    /\ WritersIdle
    /\ rpcForwardingClient # NoConn
    /\ ~clusterLeaderParams
    /\ clusterLeaderParams' = TRUE
    /\ UNCHANGED <<connVars, attempts, listenerVars, identityVars,
                   lockVars, writerVars, forwarderVars, historyVars>>
    /\ UNCHANGED outsideCore

\* ------------------------------------------------------------- the lock

\* A writer is inside its write-locked region.
InWriteLock(w) == lockWriter = w /\ wpc[w] # "lockwait"

\* Lock(): announce the writer; new readers are held back from here on.
WLock(w) ==
    /\ wpc[w] = "lock"
    /\ lockWriter = NoWriter
    /\ lockWriter' = w
    /\ wpc' = [wpc EXCEPT ![w] = "lockwait"]
    /\ UNCHANGED <<lockReaders, wop, waddr, wret, wctx, wcert>>
    /\ UNCHANGED <<connVars, clusterLeaderParams, attempts, listenerVars,
                   identityVars, forwarderVars, historyVars>>
    /\ UNCHANGED outsideCore

\* Lock() returning while readers still hold the lock.
WAcquireNoWait(w) ==
    /\ wpc[w] = "lockwait"
    /\ lockWriter = w
    /\ wpc' = [wpc EXCEPT ![w] = "clear_cancel"]
    /\ UNCHANGED <<lockVars, wop, waddr, wret, wctx, wcert>>
    /\ UNCHANGED <<connVars, clusterLeaderParams, attempts, listenerVars,
                   identityVars, forwarderVars, historyVars>>
    /\ UNCHANGED outsideCore

\* Lock() returns once the readers that held the lock have left.
WAcquire(w) ==
    /\ wpc[w] = "lockwait"
    /\ lockWriter = w
    /\ lockReaders = {}
    /\ wpc' = [wpc EXCEPT ![w] = "clear_cancel"]
    /\ UNCHANGED <<lockVars, wop, waddr, wret, wctx, wcert>>
    /\ UNCHANGED <<connVars, clusterLeaderParams, attempts, listenerVars,
                   identityVars, forwarderVars, historyVars>>
    /\ UNCHANGED outsideCore

\* RLock() granted whatever the writers do.
RLockAlways == TRUE

\* RLock() is granted when no writer holds or waits for the lock.
\* RLock() granted to one reader at a time.
RLockExclusive == lockWriter = NoWriter /\ lockReaders = {}

RLockFree == lockWriter = NoWriter

\* ------------------------------------------------ clearForwardingClients

CancelContext(a, id) ==
    [a EXCEPT ![id].ctx = "cancelled", ![id].cancels = @ + 1]

CloseTransport(a, id) ==
    [a EXCEPT ![id].transport = "closed", ![id].closes = @ + 1]

\* Where the caller of clearForwardingClients continues.
AfterClear(w) == IF wop[w] = "start" THEN "sf_unlock" ELSE "check_addr"

\* ClearCancel invoking the cancel handle without dropping it.
ClearCancelKeepsHandle(w) ==
    /\ wpc[w] = "clear_cancel"
    /\ IF rpcClientConnCancelFunc # NoConn
       THEN attempts' = CancelContext(attempts, rpcClientConnCancelFunc)
       ELSE UNCHANGED attempts
    /\ wpc' = [wpc EXCEPT ![w] = "clear_close"]
    /\ UNCHANGED connVars
    /\ UNCHANGED <<clusterLeaderParams, listenerVars, identityVars, lockVars,
                   wop, waddr, wret, wctx, wcert, forwarderVars, historyVars>>
    /\ UNCHANGED outsideCore

\* if c.rpcClientConnCancelFunc != nil { cancel(); = nil }
ClearCancel(w) ==
    /\ wpc[w] = "clear_cancel"
    /\ IF rpcClientConnCancelFunc # NoConn
       THEN /\ attempts' = CancelContext(attempts, rpcClientConnCancelFunc)
            /\ rpcClientConnCancelFunc' = NoConn
       ELSE UNCHANGED <<attempts, rpcClientConnCancelFunc>>
    /\ wpc' = [wpc EXCEPT ![w] = "clear_close"]
    /\ UNCHANGED <<rpcClientConn, rpcClientConnContext, rpcForwardingClient>>
    /\ UNCHANGED <<clusterLeaderParams, listenerVars, identityVars, lockVars,
                   wop, waddr, wret, wctx, wcert, forwarderVars, historyVars>>
    /\ UNCHANGED outsideCore

\* ClearClose dropping the handle without closing the transport.
ClearCloseLeak(w) ==
    /\ wpc[w] = "clear_close"
    /\ rpcClientConn' = NoConn
    /\ wpc' = [wpc EXCEPT ![w] = "clear_nil"]
    /\ UNCHANGED <<rpcClientConnContext, rpcClientConnCancelFunc,
                   rpcForwardingClient, attempts>>
    /\ UNCHANGED <<clusterLeaderParams, listenerVars, identityVars, lockVars,
                   wop, waddr, wret, wctx, wcert, forwarderVars, historyVars>>
    /\ UNCHANGED outsideCore

\* if c.rpcClientConn != nil { Close(); = nil }
ClearClose(w) ==
    /\ wpc[w] = "clear_close"
    /\ IF rpcClientConn # NoConn
       THEN /\ attempts' = CloseTransport(attempts, rpcClientConn)
            /\ rpcClientConn' = NoConn
       ELSE UNCHANGED <<attempts, rpcClientConn>>
    /\ wpc' = [wpc EXCEPT ![w] = "clear_nil"]
    /\ UNCHANGED <<rpcClientConnContext, rpcClientConnCancelFunc,
                   rpcForwardingClient>>
    /\ UNCHANGED <<clusterLeaderParams, listenerVars, identityVars, lockVars,
                   wop, waddr, wret, wctx, wcert, forwarderVars, historyVars>>
    /\ UNCHANGED outsideCore

\* ClearNil leaving the forwarding client in place.
ClearNilKeepsClient(w) ==
    /\ wpc[w] = "clear_nil"
    /\ rpcClientConnContext' = NoConn
    /\ wpc' = [wpc EXCEPT ![w] = "clear_remove"]
    /\ UNCHANGED <<rpcClientConn, rpcClientConnCancelFunc, rpcForwardingClient>>
    /\ UNCHANGED <<clusterLeaderParams, attempts, listenerVars, identityVars,
                   lockVars, wop, waddr, wret, wctx, wcert, forwarderVars,
                   historyVars>>
    /\ UNCHANGED outsideCore

\* c.rpcClientConnContext = nil; c.rpcForwardingClient = nil
ClearNil(w) ==
    /\ wpc[w] = "clear_nil"
    /\ rpcClientConnContext' = NoConn
    /\ rpcForwardingClient' = NoConn
    /\ wpc' = [wpc EXCEPT ![w] = "clear_remove"]
    /\ UNCHANGED <<rpcClientConn, rpcClientConnCancelFunc>>
    /\ UNCHANGED <<clusterLeaderParams, attempts, listenerVars, identityVars,
                   lockVars, wop, waddr, wret, wctx, wcert, forwarderVars,
                   historyVars>>
    /\ UNCHANGED outsideCore

\* ClearRemove without the RemoveClient.
ClearRemoveKeepsClient(w) ==
    /\ wpc[w] = "clear_remove"
    /\ clusterLeaderParams' = FALSE
    /\ wpc' = [wpc EXCEPT ![w] = AfterClear(w)]
    /\ UNCHANGED <<clusterListener, alpnClient, alpnHandler, fwRPCService, ha>>
    /\ UNCHANGED <<connVars, attempts, identityVars, lockVars,
                   wop, waddr, wret, wctx, wcert, forwarderVars, historyVars>>
    /\ UNCHANGED outsideCore

\* RemoveClient on the listener, if any; clusterLeaderParams.Store(nil)
ClearRemove(w) ==
    /\ wpc[w] = "clear_remove"
    /\ alpnClient' = IF clusterListener THEN FALSE ELSE alpnClient
    /\ clusterLeaderParams' = FALSE
    /\ wpc' = [wpc EXCEPT ![w] = AfterClear(w)]
    /\ UNCHANGED <<clusterListener, alpnHandler, fwRPCService, ha>>
    /\ UNCHANGED <<connVars, attempts, identityVars, lockVars,
                   wop, waddr, wret, wctx, wcert, forwarderVars, historyVars>>
    /\ UNCHANGED outsideCore

\* ------------------------------------------------------- startForwarding

CallStartForwarding(w) ==
    /\ wpc[w] = "idle"
    /\ wpc' = [wpc EXCEPT ![w] = "lock"]
    /\ wop' = [wop EXCEPT ![w] = "start"]
    /\ UNCHANGED <<waddr, wret, wctx, wcert>>
    /\ UNCHANGED <<connVars, clusterLeaderParams, attempts, listenerVars,
                   identityVars, lockVars, forwarderVars, historyVars>>
    /\ UNCHANGED outsideCore

\* c.requestForwardingConnectionLock.Unlock() after the clear
StartUnlock(w) ==
    /\ wpc[w] = "sf_unlock"
    /\ lockWriter' = NoWriter
    /\ wpc' = [wpc EXCEPT ![w] = "sf_setup"]
    /\ cleared' = TRUE
    /\ UNCHANGED <<lockReaders, wop, waddr, wret, wctx, wcert, selfActive>>
    /\ UNCHANGED <<connVars, clusterLeaderParams, attempts, listenerVars,
                   identityVars, forwarderVars>>
    /\ UNCHANGED outsideCore

\* NewRequestForwardingHandler: ha is resolved once; the forwarding service
\* is registered on the RPC server only with ha and a cluster handler.
NewRequestForwardingHandler(cha, clusterHandler) ==
    [ha |-> cha, service |-> cha /\ clusterHandler]

\* StartSetup registering a handler whatever c.ha and the listener are.
StartSetupAlways(w) ==
    /\ wpc[w] = "sf_setup"
    /\ \E clusterHandler \in BOOLEAN :
         LET handler == NewRequestForwardingHandler(ha, clusterHandler)
         IN /\ alpnHandler' = TRUE
            /\ fwRPCService' = handler.service
    /\ wpc' = [wpc EXCEPT ![w] = "idle"]
    /\ wop' = [wop EXCEPT ![w] = "none"]
    /\ selfActive' = TRUE
    /\ UNCHANGED <<clusterListener, alpnClient, ha, waddr, wret, wctx, wcert,
                   cleared>>
    /\ UNCHANGED <<connVars, clusterLeaderParams, attempts, identityVars,
                   lockVars, forwarderVars>>
    /\ UNCHANGED outsideCore

\* Without HA or without a listener nothing is set up; otherwise a handler is
\* constructed and registered under the forwarding ALPN. Returns nil.
StartSetup(w) ==
    /\ wpc[w] = "sf_setup"
    /\ IF ~ha \/ ~clusterListener
       THEN UNCHANGED <<alpnHandler, fwRPCService>>
       ELSE \E clusterHandler \in BOOLEAN :
              LET handler == NewRequestForwardingHandler(ha, clusterHandler)
              IN /\ alpnHandler' = TRUE
                 /\ fwRPCService' = handler.service
    /\ wpc' = [wpc EXCEPT ![w] = "idle"]
    /\ wop' = [wop EXCEPT ![w] = "none"]
    /\ selfActive' = TRUE
    /\ UNCHANGED <<clusterListener, alpnClient, ha, waddr, wret, wctx, wcert,
                   cleared>>
    /\ UNCHANGED <<connVars, clusterLeaderParams, attempts, identityVars,
                   lockVars, forwarderVars>>
    /\ UNCHANGED outsideCore

\* -------------------------------------------------------- stopForwarding

CallStopForwarding(w) ==
    /\ wpc[w] = "idle"
    /\ wpc' = [wpc EXCEPT ![w] = "stop_handler"]
    /\ wop' = [wop EXCEPT ![w] = "stop"]
    /\ UNCHANGED <<waddr, wret, wctx, wcert>>
    /\ UNCHANGED <<connVars, clusterLeaderParams, attempts, listenerVars,
                   identityVars, lockVars, forwarderVars, historyVars>>
    /\ UNCHANGED outsideCore

\* StopHandler(RequestForwardingALPN) on a listener: the handler registered
\* under the tag, if any, is gone.
StopHandler(listener, handler) == IF listener THEN FALSE ELSE handler

\* StopForwardingHandler removing the client identity as well.
StopForwardingHandlerAndClient(w) ==
    /\ wpc[w] = "stop_handler"
    /\ alpnHandler' = StopHandler(clusterListener, alpnHandler)
    /\ fwRPCService' = StopHandler(clusterListener, fwRPCService)
    /\ alpnClient' = StopHandler(clusterListener, alpnClient)
    /\ wpc' = [wpc EXCEPT ![w] = "stop_done"]
    /\ UNCHANGED <<clusterListener, ha, wop, waddr, wret, wctx, wcert>>
    /\ UNCHANGED <<connVars, clusterLeaderParams, attempts, identityVars,
                   lockVars, forwarderVars, historyVars>>
    /\ UNCHANGED outsideCore

\* clusterListener := c.getClusterListener(); if it is not nil,
\* clusterListener.StopHandler(consts.RequestForwardingALPN)
StopForwardingHandler(w) ==
    /\ wpc[w] = "stop_handler"
    /\ alpnHandler' = StopHandler(clusterListener, alpnHandler)
    /\ fwRPCService' = StopHandler(clusterListener, fwRPCService)
    /\ wpc' = [wpc EXCEPT ![w] = "stop_done"]
    /\ UNCHANGED <<clusterListener, alpnClient, ha, wop, waddr, wret, wctx,
                   wcert>>
    /\ UNCHANGED <<connVars, clusterLeaderParams, attempts, identityVars,
                   lockVars, forwarderVars, historyVars>>
    /\ UNCHANGED outsideCore

\* stopForwarding has returned.
StopForwardingReturn(w) ==
    /\ wpc[w] = "stop_done"
    /\ wpc' = [wpc EXCEPT ![w] = "idle"]
    /\ wop' = [wop EXCEPT ![w] = "none"]
    /\ UNCHANGED <<waddr, wret, wctx, wcert>>
    /\ UNCHANGED <<connVars, clusterLeaderParams, attempts, listenerVars,
                   identityVars, lockVars, forwarderVars, historyVars>>
    /\ UNCHANGED outsideCore

\* ---------------------------------- refreshRequestForwardingConnection

\* url.Parse on the addresses in use.
urlParse(addr) ==
    CASE addr = ActiveAddr -> [err |-> FALSE, Host |-> "active:8201"]
      [] addr = BadAddr -> [err |-> TRUE, Host |-> ""]
      [] OTHER -> [err |-> FALSE, Host |-> ""]

\* Refreshes under way that have yet to create their context.
DialsAhead ==
    Cardinality({w \in Writers :
        wpc[w] # "idle" /\ wop[w] = "refresh" /\ waddr[w] = ActiveAddr
        /\ wctx[w] = NoConn})

CallRefresh(w, addr) ==
    /\ wpc[w] = "idle"
    /\ addr = ActiveAddr => Len(attempts) + DialsAhead < MaxDials
    /\ wpc' = [wpc EXCEPT ![w] = "lock"]
    /\ wop' = [wop EXCEPT ![w] = "refresh"]
    /\ waddr' = [waddr EXCEPT ![w] = addr]
    /\ UNCHANGED <<wret, wctx, wcert>>
    /\ UNCHANGED <<connVars, clusterLeaderParams, attempts, listenerVars,
                   identityVars, lockVars, forwarderVars, historyVars>>
    /\ UNCHANGED outsideCore

\* return value, leaving the deferred Unlock to run
RefreshReturn(w, ret) ==
    /\ wret' = [wret EXCEPT ![w] = ret]
    /\ wpc' = [wpc EXCEPT ![w] = "unlock"]

\* RefreshCheckAddr without the early return on an empty address.
RefreshCheckAddrNoEmpty(w) ==
    /\ wpc[w] = "check_addr"
    /\ IF urlParse(waddr[w]).err
       THEN RefreshReturn(w, "ErrParse")
       ELSE /\ wpc' = [wpc EXCEPT ![w] = "cert"]
            /\ UNCHANGED wret
    /\ UNCHANGED <<wop, waddr, wctx, wcert>>
    /\ UNCHANGED <<connVars, clusterLeaderParams, attempts, listenerVars,
                   identityVars, lockVars, forwarderVars, historyVars>>
    /\ UNCHANGED outsideCore

\* if clusterAddr == "" { return nil }; url.Parse
RefreshCheckAddr(w) ==
    /\ wpc[w] = "check_addr"
    /\ IF waddr[w] = EmptyAddr
       THEN RefreshReturn(w, "nil")
       ELSE IF urlParse(waddr[w]).err
            THEN RefreshReturn(w, "ErrParse")
            ELSE /\ wpc' = [wpc EXCEPT ![w] = "cert"]
                 /\ UNCHANGED wret
    /\ UNCHANGED <<wop, waddr, wctx, wcert>>
    /\ UNCHANGED <<connVars, clusterLeaderParams, attempts, listenerVars,
                   identityVars, lockVars, forwarderVars, historyVars>>
    /\ UNCHANGED outsideCore

\* parsedCert == nil: "no request forwarding cluster certificate found"
RefreshCert(w) ==
    /\ wpc[w] = "cert"
    /\ wcert' = [wcert EXCEPT ![w] = localClusterParsedCert]
    /\ IF localClusterParsedCert = NoIdentity
       THEN RefreshReturn(w, "ErrNoCert")
       ELSE /\ wpc' = [wpc EXCEPT ![w] = "listener"]
            /\ UNCHANGED wret
    /\ UNCHANGED <<wop, waddr, wctx>>
    /\ UNCHANGED <<connVars, clusterLeaderParams, attempts, listenerVars,
                   identityVars, lockVars, forwarderVars, historyVars>>
    /\ UNCHANGED outsideCore

\* clusterListener == nil: logs "no cluster listener configured", returns nil
RefreshListener(w) ==
    /\ wpc[w] = "listener"
    /\ IF ~clusterListener
       THEN RefreshReturn(w, "nil")
       ELSE /\ wpc' = [wpc EXCEPT ![w] = "add_client"]
            /\ UNCHANGED wret
    /\ UNCHANGED <<wop, waddr, wctx, wcert>>
    /\ UNCHANGED <<connVars, clusterLeaderParams, attempts, listenerVars,
                   identityVars, lockVars, forwarderVars, historyVars>>
    /\ UNCHANGED outsideCore

\* clusterListener.AddClient(RequestForwardingALPN, ...)
RefreshAddClient(w) ==
    /\ wpc[w] = "add_client"
    /\ alpnClient' = TRUE
    /\ wpc' = [wpc EXCEPT ![w] = "dial"]
    /\ UNCHANGED <<clusterListener, alpnHandler, fwRPCService, ha, wop, waddr,
                   wret, wctx,
                   wcert>>
    /\ UNCHANGED <<connVars, clusterLeaderParams, attempts, identityVars,
                   lockVars, forwarderVars, historyVars>>
    /\ UNCHANGED outsideCore

\* A failed dial recorded without the cancelFunc() of the error path.
NewAttemptNoCancel(host, ok) ==
    [target |-> host,
     ctx |-> "live",
     transport |-> IF ok THEN "open" ELSE "failed",
     cancels |-> 0,
     closes |-> 0,
     heartbeat |-> FALSE]

\* The context and connection of one dial: live and open on success,
\* cancelled by the error path on failure.
NewAttempt(host, ok) ==
    [target |-> host,
     ctx |-> IF ok THEN "live" ELSE "cancelled",
     transport |-> IF ok THEN "open" ELSE "failed",
     cancels |-> IF ok THEN 0 ELSE 1,
     closes |-> 0,
     heartbeat |-> FALSE]

\* context.WithCancel; c.rpcClientConn, err = grpc.DialContext(...); on error
\* cancelFunc() and return err (DialContext returns a nil connection then).
RefreshDial(w) ==
    /\ wpc[w] = "dial"
    /\ \E ok \in BOOLEAN :
         /\ attempts' = Append(attempts,
                               NewAttempt(urlParse(waddr[w]).Host, ok))
         /\ wctx' = [wctx EXCEPT ![w] = Len(attempts) + 1]
         /\ IF ok
            THEN /\ rpcClientConn' = Len(attempts) + 1
                 /\ wpc' = [wpc EXCEPT ![w] = "publish"]
                 /\ UNCHANGED wret
            ELSE /\ rpcClientConn' = NoConn
                 /\ RefreshReturn(w, "ErrDial")
    /\ UNCHANGED <<rpcClientConnContext, rpcClientConnCancelFunc,
                   rpcForwardingClient, wop, waddr, wcert>>
    /\ UNCHANGED <<clusterLeaderParams, listenerVars, identityVars, lockVars,
                   forwarderVars, historyVars>>
    /\ UNCHANGED outsideCore

\* publish context, cancel handle and client; startHeartbeat(); return nil
RefreshPublish(w) ==
    /\ wpc[w] = "publish"
    /\ rpcClientConnContext' = wctx[w]
    /\ rpcClientConnCancelFunc' = wctx[w]
    /\ rpcForwardingClient' = rpcClientConn
    /\ attempts' = [attempts EXCEPT ![wctx[w]].heartbeat = TRUE]
    /\ RefreshReturn(w, "nil")
    /\ UNCHANGED <<rpcClientConn, wop, waddr, wctx, wcert>>
    /\ UNCHANGED <<clusterLeaderParams, listenerVars, identityVars, lockVars,
                   forwarderVars, historyVars>>
    /\ UNCHANGED outsideCore

\* The refresh that is returning established a connection.
Established(w) == wret[w] = "nil" /\ wctx[w] # NoConn

\* defer c.requestForwardingConnectionLock.Unlock()
RefreshUnlock(w) ==
    /\ wpc[w] = "unlock"
    /\ lockWriter' = NoWriter
    /\ wpc' = [wpc EXCEPT ![w] = "idle"]
    /\ wop' = [wop EXCEPT ![w] = "none"]
    /\ waddr' = [waddr EXCEPT ![w] = EmptyAddr]
    /\ wret' = [wret EXCEPT ![w] = "none"]
    /\ wctx' = [wctx EXCEPT ![w] = NoConn]
    /\ wcert' = [wcert EXCEPT ![w] = Unread]
    /\ selfActive' = IF waddr[w] = EmptyAddr THEN TRUE
                     ELSE IF Established(w) THEN FALSE ELSE selfActive
    /\ cleared' = IF waddr[w] = EmptyAddr THEN TRUE
                  ELSE IF Established(w) THEN FALSE ELSE cleared
    /\ UNCHANGED lockReaders
    /\ UNCHANGED <<connVars, clusterLeaderParams, attempts, listenerVars,
                   identityVars, forwarderVars>>
    /\ UNCHANGED outsideCore

\* --------------------------------------------------------- ForwardRequest

NilBody == "<nil>"

ResultOf(status, header, body, err) ==
    [status |-> status, header |-> header, body |-> body, err |-> err]

\* return 0, nil, nil, <err>
ErrorResult(err) == ResultOf(0, NoHeader, NilBody, err)

\* SetHeader keeping only the first value of the entry.
SetHeaderFirstValue(header, k, values) ==
    [n \in (DOMAIN header) \cup {k} |->
        IF n = k
        THEN IF Len(values) = 0 THEN <<>> ELSE <<values[1]>>
        ELSE header[n]]

\* header[k] = v.Values
SetHeader(header, k, values) ==
    [n \in (DOMAIN header) \cup {k} |-> IF n = k THEN values ELSE header[n]]

\* header = make(http.Header); for k, v := range entries { header[k] = v.Values }
RECURSIVE CopyEntries(_, _, _)
CopyEntries(entries, keys, header) ==
    IF keys = {}
    THEN header
    ELSE LET k == CHOOSE x \in keys : TRUE
         IN CopyEntries(entries, keys \ {k}, SetHeader(header, k, entries[k]))

\* var header http.Header; built only if resp.HeaderEntries != nil
BuildHeader(resp) ==
    IF resp.HeaderEntries.absent
    THEN NoHeader
    ELSE HeaderOf(CopyEntries(resp.HeaderEntries.entries,
                              DOMAIN resp.HeaderEntries.entries, <<>>))

\* return int(resp.StatusCode), header, resp.Body, nil
\* (the uint32 status widens to int without change of value)
SuccessResult(resp) ==
    ResultOf(resp.StatusCode, BuildHeader(resp), resp.Body, "nil")

FwdCall(f, r) ==
    /\ fpc[f] = "idle"
    /\ fpc' = [fpc EXCEPT ![f] = "rlock"]
    /\ freq' = [freq EXCEPT ![f] = r]
    /\ UNCHANGED <<forigPath, fsent, fwire, fresult, frpcs, ferrors>>
    /\ UNCHANGED <<connVars, clusterLeaderParams, attempts, listenerVars,
                   identityVars, lockVars, writerVars, historyVars>>
    /\ UNCHANGED outsideCore

\* c.requestForwardingConnectionLock.RLock()
FwdRLock(f) ==
    /\ fpc[f] = "rlock"
    /\ RLockFree
    /\ lockReaders' = lockReaders \cup {f}
    /\ fpc' = [fpc EXCEPT ![f] = "check"]
    /\ UNCHANGED <<lockWriter, freq, forigPath, fsent, fwire, fresult, frpcs,
                   ferrors>>
    /\ UNCHANGED <<connVars, clusterLeaderParams, attempts, listenerVars,
                   identityVars, writerVars, historyVars>>
    /\ UNCHANGED outsideCore

\* A return of ForwardRequest: the result, then the deferred RUnlock.
FwdReturn(f, result) ==
    /\ fresult' = [fresult EXCEPT ![f] = result]
    /\ lockReaders' = lockReaders \ {f}
    /\ fpc' = [fpc EXCEPT ![f] = "done"]

\* FwdCheck going on to forward without looking at the client.
FwdCheckNoGuard(f) ==
    /\ fpc[f] = "check"
    /\ fpc' = [fpc EXCEPT ![f] = "rewrite"]
    /\ UNCHANGED <<fresult, lockReaders>>
    /\ UNCHANGED <<lockWriter, freq, forigPath, fsent, fwire, frpcs, ferrors>>
    /\ UNCHANGED <<connVars, clusterLeaderParams, attempts, listenerVars,
                   identityVars, writerVars, historyVars>>
    /\ UNCHANGED outsideCore

\* if c.rpcForwardingClient == nil { return 0, nil, nil, ErrCannotForward }
FwdCheck(f) ==
    /\ fpc[f] = "check"
    /\ IF rpcForwardingClient = NoConn
       THEN FwdReturn(f, ErrorResult("ErrCannotForward"))
       ELSE /\ fpc' = [fpc EXCEPT ![f] = "rewrite"]
            /\ UNCHANGED <<fresult, lockReaders>>
    /\ UNCHANGED <<lockWriter, freq, forigPath, fsent, fwire, frpcs, ferrors>>
    /\ UNCHANGED <<connVars, clusterLeaderParams, attempts, listenerVars,
                   identityVars, writerVars, historyVars>>
    /\ UNCHANGED outsideCore

\* origPath := req.URL.Path; req.URL.Path = <original_request_path>
FwdRewrite(f) ==
    /\ fpc[f] = "rewrite"
    /\ forigPath' = [forigPath EXCEPT ![f] = freq[f].path]
    /\ freq' = [freq EXCEPT ![f].path = freq[f].orig]
    /\ fpc' = [fpc EXCEPT ![f] = "gen"]
    /\ UNCHANGED <<fsent, fwire, fresult, frpcs, ferrors>>
    /\ UNCHANGED <<connVars, clusterLeaderParams, attempts, listenerVars,
                   identityVars, lockVars, writerVars, historyVars>>
    /\ UNCHANGED outsideCore

\* A return that leaves the rewritten path in the request.
RestorePathSkipped(f) == UNCHANGED freq

\* the deferred req.URL.Path = origPath
RestorePath(f) == freq' = [freq EXCEPT ![f].path = forigPath[f]]

\* forwarding.GenerateForwardedRequest: an error, nil, or the wire request,
\* which is then sent on the forwarding client.
FwdGenerate(f) ==
    /\ fpc[f] = "gen"
    /\ \E out \in {"ok", "err", "nil"} :
         CASE out = "ok" ->
                /\ fsent' = [fsent EXCEPT ![f] = rpcForwardingClient]
                /\ fwire' = [fwire EXCEPT ![f] = freq[f].path]
                /\ frpcs' = [frpcs EXCEPT ![f] = frpcs[f] + 1]
                /\ fpc' = [fpc EXCEPT ![f] = "rpc"]
                /\ UNCHANGED <<freq, fresult, lockReaders>>
           [] out = "err" ->
                /\ FwdReturn(f,
                     ErrorResult("error creating forwarding RPC request"))
                /\ RestorePath(f)
                /\ UNCHANGED <<fsent, fwire, frpcs>>
           [] out = "nil" ->
                /\ FwdReturn(f, ErrorResult("got nil forwarding RPC request"))
                /\ RestorePath(f)
                /\ UNCHANGED <<fsent, fwire, frpcs>>
    /\ UNCHANGED <<lockWriter, forigPath, ferrors>>
    /\ UNCHANGED <<connVars, clusterLeaderParams, attempts, listenerVars,
                   identityVars, writerVars, historyVars>>
    /\ UNCHANGED outsideCore

\* FwdRPCError trying again instead of returning.
FwdRPCErrorRetry(f) ==
    /\ fpc[f] = "rpc"
    /\ ferrors' = [ferrors EXCEPT ![f] = ferrors[f] + 1]
    /\ fpc' = [fpc EXCEPT ![f] = "gen"]
    /\ UNCHANGED <<freq, fresult, lockReaders>>
    /\ UNCHANGED <<lockWriter, forigPath, fsent, fwire, frpcs>>
    /\ UNCHANGED <<connVars, clusterLeaderParams, attempts, listenerVars,
                   identityVars, writerVars, historyVars>>
    /\ UNCHANGED outsideCore

\* The RPC returns an error: the error metric is incremented and the generic
\* error returned.
FwdRPCError(f) ==
    /\ fpc[f] = "rpc"
    /\ ferrors' = [ferrors EXCEPT ![f] = ferrors[f] + 1]
    /\ FwdReturn(f, ErrorResult("error during forwarding RPC request"))
    /\ RestorePath(f)
    /\ UNCHANGED <<lockWriter, forigPath, fsent, fwire, frpcs>>
    /\ UNCHANGED <<connVars, clusterLeaderParams, attempts, listenerVars,
                   identityVars, writerVars, historyVars>>
    /\ UNCHANGED outsideCore

\* The RPC returns the active node's response.
FwdRPCResponse(f, resp) ==
    /\ fpc[f] = "rpc"
    /\ FwdReturn(f, SuccessResult(resp))
    /\ RestorePath(f)
    /\ UNCHANGED <<lockWriter, forigPath, fsent, fwire, frpcs, ferrors>>
    /\ UNCHANGED <<connVars, clusterLeaderParams, attempts, listenerVars,
                   identityVars, writerVars, historyVars>>
    /\ UNCHANGED outsideCore

\* The caller is done with the result.
FwdDone(f) ==
    /\ fpc[f] = "done"
    /\ fpc' = [fpc EXCEPT ![f] = "idle"]
    /\ freq' = [freq EXCEPT ![f] = NoRequest]
    /\ forigPath' = [forigPath EXCEPT ![f] = ""]
    /\ fsent' = [fsent EXCEPT ![f] = NoConn]
    /\ fwire' = [fwire EXCEPT ![f] = NoPath]
    /\ frpcs' = [frpcs EXCEPT ![f] = 0]
    /\ ferrors' = [ferrors EXCEPT ![f] = 0]
    /\ fresult' = [fresult EXCEPT ![f] = NoResult]
    /\ UNCHANGED <<connVars, clusterLeaderParams, attempts, listenerVars,
                   identityVars, lockVars, writerVars, historyVars>>
    /\ UNCHANGED outsideCore

\* ------------------------------------------------ TLS lookup callbacks

\* RawIssuer and Subject.CommonName of an identity's parsed certificate.
IssuerOf(i) == CASE i = "A" -> "issuer-A" [] i = "B" -> "issuer-B"
                 [] OTHER -> ""
CommonNameOf(i) == CASE i = "A" -> "cn-A" [] i = "B" -> "cn-B" [] OTHER -> ""

\* requestInfo.AcceptableCAs of a peer
AcceptableCASets == SUBSET {IssuerOf(i) : i \in Identities}

LookupOps == {"ClientLookup", "ServerLookup", "CALookup", "ServerName",
              "CACert"}

FirstStep(op) ==
    CASE op = "ClientLookup" -> "cl_parsed"
      [] op = "ServerLookup" -> "sl_cert"
      [] op = "CALookup" -> "ca_parsed"
      [] op = "ServerName" -> "sn_parsed"
      [] OTHER -> "cc_parsed"

\* The TLS layer calls one of the callbacks during a handshake.
HsCall(op, cas) ==
    /\ hpc = "idle"
    /\ op = "ClientLookup" \/ cas = {}
    /\ hop' = op
    /\ hcas' = cas
    /\ hpc' = FirstStep(op)
    /\ UNCHANGED <<hparsed, hcert, hkey, hret>>
    /\ UNCHANGED outsideHandshake

HsReturn(ret) ==
    /\ hret' = ret
    /\ hpc' = "done"

\* ClientLookup: parsedCert := localClusterParsedCert.Load(); nil => nil, nil
ClLoadParsed ==
    /\ hpc = "cl_parsed"
    /\ hparsed' = localClusterParsedCert
    /\ IF localClusterParsedCert = NoIdentity
       THEN HsReturn(NoCertificate)
       ELSE hpc' = "cl_cert" /\ UNCHANGED hret
    /\ UNCHANGED <<hop, hcas, hcert, hkey>>
    /\ UNCHANGED outsideHandshake

\* ClientLookup: currCert := localClusterCert.Load(); empty => nil, nil
ClLoadCert ==
    /\ hpc = "cl_cert"
    /\ hcert' = localClusterCert
    /\ IF localClusterCert = NoIdentity
       THEN HsReturn(NoCertificate)
       ELSE hpc' = "cl_match" /\ UNCHANGED hret
    /\ UNCHANGED <<hop, hcas, hparsed, hkey>>
    /\ UNCHANGED outsideHandshake

\* ClMatch handing out the certificate whatever the peer accepts.
ClMatchAny ==
    /\ hpc = "cl_match"
    /\ hpc' = "cl_key"
    /\ UNCHANGED hret
    /\ UNCHANGED <<hop, hcas, hparsed, hcert, hkey>>
    /\ UNCHANGED outsideHandshake

\* ClientLookup: some acceptable CA equals parsedCert.RawIssuer, else nil, nil
ClMatch ==
    /\ hpc = "cl_match"
    /\ IF IssuerOf(hparsed) \in hcas
       THEN hpc' = "cl_key" /\ UNCHANGED hret
       ELSE HsReturn(NoCertificate)
    /\ UNCHANGED <<hop, hcas, hparsed, hcert, hkey>>
    /\ UNCHANGED outsideHandshake

\* ClientLookup: PrivateKey: localClusterPrivateKey.Load()
ClLoadKey ==
    /\ hpc = "cl_key"
    /\ hkey' = localClusterPrivateKey
    /\ hpc' = "cl_leaf"
    /\ UNCHANGED <<hop, hcas, hparsed, hcert, hret>>
    /\ UNCHANGED outsideHandshake

\* ClientLookup: Leaf: localClusterParsedCert.Load(); return the certificate
ClLoadLeaf ==
    /\ hpc = "cl_leaf"
    /\ HsReturn([cert |-> hcert, key |-> hkey,
                 leaf |-> localClusterParsedCert, name |-> "", err |-> "nil"])
    /\ UNCHANGED <<hop, hcas, hparsed, hcert, hkey>>
    /\ UNCHANGED outsideHandshake

\* SlLoadCert going on without the test of an empty certificate.
SlLoadCertNoCheck ==
    /\ hpc = "sl_cert"
    /\ hcert' = localClusterCert
    /\ hpc' = "sl_key"
    /\ UNCHANGED hret
    /\ UNCHANGED <<hop, hcas, hparsed, hkey>>
    /\ UNCHANGED outsideHandshake

\* ServerLookup: currCert := localClusterCert.Load(); empty => error
SlLoadCert ==
    /\ hpc = "sl_cert"
    /\ hcert' = localClusterCert
    /\ IF localClusterCert = NoIdentity
       THEN HsReturn([NoCertificate EXCEPT
                !.err = "got forwarding connection but no local cert"])
       ELSE hpc' = "sl_key" /\ UNCHANGED hret
    /\ UNCHANGED <<hop, hcas, hparsed, hkey>>
    /\ UNCHANGED outsideHandshake

\* ServerLookup: PrivateKey: localClusterPrivateKey.Load()
SlLoadKey ==
    /\ hpc = "sl_key"
    /\ hkey' = localClusterPrivateKey
    /\ hpc' = "sl_leaf"
    /\ UNCHANGED <<hop, hcas, hparsed, hcert, hret>>
    /\ UNCHANGED outsideHandshake

\* ServerLookup: Leaf: localClusterParsedCert.Load(); return the certificate
SlLoadLeaf ==
    /\ hpc = "sl_leaf"
    /\ HsReturn([cert |-> hcert, key |-> hkey,
                 leaf |-> localClusterParsedCert, name |-> "", err |-> "nil"])
    /\ UNCHANGED <<hop, hcas, hparsed, hcert, hkey>>
    /\ UNCHANGED outsideHandshake

\* CALookup: the parsed certificate, or an error when it is nil
CALookup ==
    /\ hpc = "ca_parsed"
    /\ hparsed' = localClusterParsedCert
    /\ IF localClusterParsedCert = NoIdentity
       THEN HsReturn([NoCertificate EXCEPT
                !.err = "forwarding connection client but no local cert"])
       ELSE HsReturn([NoCertificate EXCEPT !.leaf = localClusterParsedCert])
    /\ UNCHANGED <<hop, hcas, hcert, hkey>>
    /\ UNCHANGED outsideHandshake

\* ServerName: the common name of the parsed certificate, or ""
ServerName ==
    /\ hpc = "sn_parsed"
    /\ hparsed' = localClusterParsedCert
    /\ HsReturn([NoCertificate EXCEPT
            !.name = CommonNameOf(localClusterParsedCert)])
    /\ UNCHANGED <<hop, hcas, hcert, hkey>>
    /\ UNCHANGED outsideHandshake

\* CACert: the parsed certificate
CACert ==
    /\ hpc = "cc_parsed"
    /\ hparsed' = localClusterParsedCert
    /\ HsReturn([NoCertificate EXCEPT !.leaf = localClusterParsedCert])
    /\ UNCHANGED <<hop, hcas, hcert, hkey>>
    /\ UNCHANGED outsideHandshake

\* The TLS layer has consumed the callback's result.
HsDone ==
    /\ hpc = "done"
    /\ hpc' = "idle"
    /\ hop' = "none"
    /\ hcas' = {}
    /\ hparsed' = NoIdentity
    /\ hcert' = NoIdentity
    /\ hkey' = NoIdentity
    /\ hret' = NoCertificate
    /\ UNCHANGED outsideHandshake

NextTLS ==
    \/ \E i \in Identities \cup {NoIdentity} : ReplaceIdentity(i)
    \/ \E op \in LookupOps : \E cas \in AcceptableCASets : HsCall(op, cas)
    \/ ClLoadParsed
    \/ ClLoadCert
    \/ ClMatch
    \/ ClLoadKey
    \/ ClLoadLeaf
    \/ SlLoadCert
    \/ SlLoadKey
    \/ SlLoadLeaf
    \/ CALookup
    \/ ServerName
    \/ CACert
    \/ HsDone

SpecTLS == Init /\ [][NextTLS]_vars

\* ------------------------- the callbacks with rotation between handshakes

\* The identity is replaced while no callback is running.
ReplaceBetweenHandshakes(i) ==
    /\ hpc = "idle"
    /\ ReplaceIdentity(i)

NextLookup ==
    \/ \E i \in Identities \cup {NoIdentity} : ReplaceBetweenHandshakes(i)
    \/ \E op \in LookupOps : \E cas \in AcceptableCASets : HsCall(op, cas)
    \/ ClLoadParsed
    \/ ClLoadCert
    \/ ClMatch
    \/ ClLoadKey
    \/ ClLoadLeaf
    \/ SlLoadCert
    \/ SlLoadKey
    \/ SlLoadLeaf
    \/ CALookup
    \/ ServerName
    \/ CACert
    \/ HsDone

SpecLookup == Init /\ [][NextLookup]_vars

\* ------------------------------------------------ the forwarding server

\* Time an RPC needs, in ticks of the clock.
MaxDuration == 2

InFlight(c) == rpc[c] = "inflight"

\* The response of an RPC can still be written to its connection.
Servable(c) ==
    /\ serve[c] = "serving"
    /\ tlsConn[c] = "open"
    /\ fwRPCServer = "serving"

\* Handoff serving the connection whatever rf.ha says.
HandoffAlwaysServes(c) ==
    /\ handed[c] = "no"
    /\ shutdownWg' = shutdownWg + 2
    /\ quitCh' = [quitCh EXCEPT ![c] = "open"]
    /\ watcher' = [watcher EXCEPT ![c] = "select"]
    /\ serve' = [serve EXCEPT ![c] = "serving"]
    /\ tlsConn' = [tlsConn EXCEPT ![c] = "open"]
    /\ handed' = [handed EXCEPT ![c] =
                     IF ~rf_ha THEN "dropped"
                     ELSE IF stopCh = "closed" THEN "late" ELSE "early"]
    /\ UNCHANGED closes
    /\ UNCHANGED <<handlerVars, closeCh, rpcVars>>
    /\ UNCHANGED outsideServer

\* Handoff: without HA the connection is closed at once; with HA the barrier
\* is raised by two and the watcher and the serve loop are started.
Handoff(c) ==
    /\ handed[c] = "no"
    /\ IF ~rf_ha
       THEN /\ tlsConn' = [tlsConn EXCEPT ![c] = "closed"]
            /\ closes' = [closes EXCEPT ![c] = 1]
            /\ handed' = [handed EXCEPT ![c] = "dropped"]
            /\ UNCHANGED <<shutdownWg, quitCh, watcher, serve>>
       ELSE /\ shutdownWg' = shutdownWg + 2
            /\ quitCh' = [quitCh EXCEPT ![c] = "open"]
            /\ watcher' = [watcher EXCEPT ![c] = "select"]
            /\ serve' = [serve EXCEPT ![c] = "serving"]
            /\ tlsConn' = [tlsConn EXCEPT ![c] = "open"]
            /\ handed' = [handed EXCEPT ![c] =
                             IF stopCh = "closed" THEN "late" ELSE "early"]
            /\ UNCHANGED closes
    /\ UNCHANGED <<handlerVars, closeCh, rpcVars>>
    /\ UNCHANGED outsideServer

\* The watcher's select woken by the close signal of any connection.
WatcherSelectAnyClose(c) ==
    /\ watcher[c] = "select"
    /\ \/ quitCh[c] = "closed"
       \/ \E d \in Watched : closeCh[d] = "closed"
       \/ stopCh = "closed"
    /\ watcher' = [watcher EXCEPT ![c] = "close"]
    /\ UNCHANGED <<handlerVars, closeCh, shutdownWg, handed, tlsConn, closes,
                   quitCh, serve, rpcVars>>
    /\ UNCHANGED outsideServer

\* The watcher's select without the case of rf.stopCh.
WatcherSelectNoStop(c) ==
    /\ watcher[c] = "select"
    /\ \/ quitCh[c] = "closed"
       \/ closeCh[c] = "closed"
    /\ watcher' = [watcher EXCEPT ![c] = "close"]
    /\ UNCHANGED <<handlerVars, closeCh, shutdownWg, handed, tlsConn, closes,
                   quitCh, serve, rpcVars>>
    /\ UNCHANGED outsideServer

\* The watcher's select: quitCh, closeCh or rf.stopCh is closed.
WatcherSelect(c) ==
    /\ watcher[c] = "select"
    /\ \/ quitCh[c] = "closed"
       \/ closeCh[c] = "closed"
       \/ stopCh = "closed"
    /\ watcher' = [watcher EXCEPT ![c] = "close"]
    /\ UNCHANGED <<handlerVars, closeCh, shutdownWg, handed, tlsConn, closes,
                   quitCh, serve, rpcVars>>
    /\ UNCHANGED outsideServer

\* The watcher's tlsConn.Close() and shutdownWg.Done().
WatcherClose(c) ==
    /\ watcher[c] = "close"
    /\ tlsConn' = [tlsConn EXCEPT ![c] = "closed"]
    /\ closes' = [closes EXCEPT ![c] = closes[c] + 1]
    /\ shutdownWg' = shutdownWg - 1
    /\ watcher' = [watcher EXCEPT ![c] = "finished"]
    /\ UNCHANGED <<handlerVars, closeCh, handed, quitCh, serve, rpcVars>>
    /\ UNCHANGED outsideServer

\* ServeConn returns because the connection has been closed under it; an
\* RPC still in flight is cut short.
ServeConnClosed(c) ==
    /\ serve[c] = "serving"
    /\ tlsConn[c] = "closed"
    /\ serve' = [serve EXCEPT ![c] = "returned"]
    /\ rpc' = [rpc EXCEPT ![c] = IF InFlight(c) THEN "aborted" ELSE rpc[c]]
    /\ UNCHANGED <<handlerVars, closeCh, shutdownWg, handed, tlsConn, closes,
                   quitCh, watcher, rpcLeft, rpcShort>>
    /\ UNCHANGED outsideServer

\* ServeConn returns because the peer has gone away.
ServeConnPeerGone(c) ==
    /\ serve[c] = "serving"
    /\ tlsConn[c] = "open"
    /\ serve' = [serve EXCEPT ![c] = "returned"]
    /\ rpc' = [rpc EXCEPT ![c] = IF InFlight(c) THEN "dropped" ELSE rpc[c]]
    /\ UNCHANGED <<handlerVars, closeCh, shutdownWg, handed, tlsConn, closes,
                   quitCh, watcher, rpcLeft, rpcShort>>
    /\ UNCHANGED outsideServer

\* ServeQuit leaving quitCh open.
ServeQuitKeepsQuitCh(c) ==
    /\ serve[c] = "returned"
    /\ shutdownWg' = shutdownWg - 1
    /\ serve' = [serve EXCEPT ![c] = "finished"]
    /\ UNCHANGED <<handlerVars, closeCh, handed, tlsConn, closes, quitCh,
                   watcher, rpcVars>>
    /\ UNCHANGED outsideServer

\* The serve goroutine after ServeConn: close(quitCh); shutdownWg.Done().
ServeQuit(c) ==
    /\ serve[c] = "returned"
    /\ quitCh' = [quitCh EXCEPT ![c] = "closed"]
    /\ shutdownWg' = shutdownWg - 1
    /\ serve' = [serve EXCEPT ![c] = "finished"]
    /\ UNCHANGED <<handlerVars, closeCh, handed, tlsConn, closes, watcher,
                   rpcVars>>
    /\ UNCHANGED outsideServer

\* The peer starts an RPC that needs d ticks.
RPCBegin(c, d) ==
    /\ Servable(c)
    /\ rpc[c] = "none"
    /\ rpc' = [rpc EXCEPT ![c] = "inflight"]
    /\ rpcLeft' = [rpcLeft EXCEPT ![c] = d]
    /\ UNCHANGED <<handlerVars, connectionVars, rpcShort>>
    /\ UNCHANGED outsideServer

\* An RPC whose time is up writes its response.
RPCComplete(c) ==
    /\ InFlight(c)
    /\ rpcLeft[c] = 0
    /\ Servable(c)
    /\ rpc' = [rpc EXCEPT ![c] = "completed"]
    /\ UNCHANGED <<handlerVars, connectionVars, rpcLeft, rpcShort>>
    /\ UNCHANGED outsideServer

\* One tick of the clock. An RPC whose time is up completes before the
\* clock moves on; a sleeper may wake late, never early.
Tick ==
    /\ \/ spc = "sleep" /\ sleepLeft > 0
       \/ \E c \in Watched : InFlight(c) /\ rpcLeft[c] > 0
    /\ \A c \in Watched : (InFlight(c) /\ Servable(c)) => rpcLeft[c] > 0
    /\ sleepLeft' = IF sleepLeft > 0 THEN sleepLeft - 1 ELSE 0
    /\ rpcLeft' = [c \in Watched |->
                     IF InFlight(c) /\ rpcLeft[c] > 0
                     THEN rpcLeft[c] - 1 ELSE rpcLeft[c]]
    /\ UNCHANGED <<rf_ha, stopCh, fwRPCServer, spc, connectionVars, rpc,
                   rpcShort>>
    /\ UNCHANGED outsideServer

\* CallStop raising the stop signal before the sleep.
CallStopSignalFirst ==
    /\ spc = "idle"
    /\ spc' = "sleep"
    /\ stopCh' = "closed"
    /\ sleepLeft' = ListenerAcceptDeadline
    /\ rpcShort' = [c \in Watched |->
                      InFlight(c) /\ rpcLeft[c] < ListenerAcceptDeadline]
    /\ UNCHANGED <<rf_ha, fwRPCServer, connectionVars, rpc, rpcLeft>>
    /\ UNCHANGED outsideServer

\* Stop is called and starts time.Sleep(cluster.ListenerAcceptDeadline).
\* rpcShort marks the RPCs in flight that need less than the sleep.
CallStop ==
    /\ spc = "idle"
    /\ spc' = "sleep"
    /\ sleepLeft' = ListenerAcceptDeadline
    /\ rpcShort' = [c \in Watched |->
                      InFlight(c) /\ rpcLeft[c] < ListenerAcceptDeadline]
    /\ UNCHANGED <<rf_ha, stopCh, fwRPCServer, connectionVars, rpc, rpcLeft>>
    /\ UNCHANGED outsideServer

\* StopSignal without waiting for the end of the sleep.
StopSignalEarly ==
    /\ spc = "sleep"
    /\ stopCh' = "closed"
    /\ spc' = "hardstop"
    /\ UNCHANGED <<rf_ha, fwRPCServer, sleepLeft, connectionVars, rpcVars>>
    /\ UNCHANGED outsideServer

\* The sleep is over: close(rf.stopCh)
StopSignal ==
    /\ spc = "sleep"
    /\ sleepLeft = 0
    /\ stopCh' = "closed"
    /\ spc' = "hardstop"
    /\ UNCHANGED <<rf_ha, fwRPCServer, sleepLeft, connectionVars, rpcVars>>
    /\ UNCHANGED outsideServer

\* rf.fwRPCServer.Stop(); return nil. The RPCs in flight are cut short.
StopServer ==
    /\ spc = "hardstop"
    /\ fwRPCServer' = "stopped"
    /\ rpc' = [c \in Watched |-> IF InFlight(c) THEN "aborted" ELSE rpc[c]]
    /\ spc' = "returned"
    /\ UNCHANGED <<rf_ha, stopCh, sleepLeft, connectionVars, rpcLeft,
                   rpcShort>>
    /\ UNCHANGED outsideServer

\* The cluster listener shuts down and closes the closeCh it gave with every
\* connection.
CloseListener ==
    /\ \E c \in Watched : closeCh[c] = "open"
    /\ closeCh' = [c \in Watched |-> "closed"]
    /\ UNCHANGED <<handlerVars, shutdownWg, handed, tlsConn, closes, quitCh,
                   watcher, serve, rpcVars>>
    /\ UNCHANGED outsideServer

NextServer ==
    \/ \E c \in Conns :
         \/ Handoff(c)
         \/ WatcherSelect(c)
         \/ WatcherClose(c)
         \/ ServeConnClosed(c)
         \/ ServeConnPeerGone(c)
         \/ ServeQuit(c)
         \/ \E d \in 1..MaxDuration : RPCBegin(c, d)
         \/ RPCComplete(c)
    \/ Tick
    \/ CallStop
    \/ StopSignal
    \/ StopServer
    \/ CloseListener

SpecServer == Init /\ [][NextServer]_vars

\* The goroutines run on: a watcher whose select is ready, and a serve loop
\* whose connection is closed, each take their next step.
ServerFairness ==
    \A c \in Conns :
        /\ WF_vars(WatcherSelect(c))
        /\ WF_vars(WatcherClose(c))
        /\ WF_vars(ServeConnClosed(c))
        /\ WF_vars(ServeQuit(c))

SpecServerLive == SpecServer /\ ServerFairness

\* The caller of Handoff closes the closeCh of one connection.
CloseSignal(c) ==
    /\ closeCh[c] = "open"
    /\ closeCh' = [closeCh EXCEPT ![c] = "closed"]
    /\ UNCHANGED <<handlerVars, shutdownWg, handed, tlsConn, closes, quitCh,
                   watcher, serve, rpcVars>>
    /\ UNCHANGED outsideServer

\* Connections whose peer stays and sends nothing: a serve loop ends only
\* when its connection is closed under it.
NextWatchers ==
    \/ \E c \in Watched :
         \/ Handoff(c)
         \/ WatcherSelect(c)
         \/ WatcherClose(c)
         \/ ServeConnClosed(c)
         \/ ServeQuit(c)
         \/ CloseSignal(c)
    \/ Tick
    \/ CallStop
    \/ StopSignal
    \/ StopServer

SpecWatchers == Init /\ [][NextWatchers]_vars

\* The watcher goroutines run on; nothing is assumed of the serve loops.
WatcherFairness ==
    \A c \in Watched :
        /\ WF_vars(WatcherSelect(c))
        /\ WF_vars(WatcherClose(c))

SpecWatchersLive == SpecWatchers /\ WatcherFairness

\* --------------------------------- header reconstruction, step by step

\* Length of the value list of one header entry.
MaxValues == 2

HeaderNames == {"X-Echo", "X-Test"}
HeaderValues == {"1", "2"}
ValueLists == UNION {[1..n -> HeaderValues] : n \in 0..MaxValues}

\* Header entries of a decoded wire response: the map is nil when the
\* response carries no entry, and otherwise maps each name to its value list.
DecodedHeaders ==
    {NoHeader} \cup
    {HeaderOf(m) : m \in UNION {[S -> ValueLists] :
                                    S \in (SUBSET HeaderNames) \ {{}}}}

DecodedResponses ==
    [StatusCode : {200, 503}, HeaderEntries : DecodedHeaders,
     Body : {"done", ""}]

\* A response has come back from the RPC.
HeaderInput ==
    /\ xpc = "start"
    /\ xresp \in DecodedResponses
    /\ xkeys = {}
    /\ xheader = NoHeader
    /\ xresult = NoResult

\* var header http.Header; if resp.HeaderEntries != nil { make(http.Header) }
HdrBegin ==
    /\ xpc = "start"
    /\ IF xresp.HeaderEntries.absent
       THEN /\ xpc' = "return"
            /\ UNCHANGED <<xkeys, xheader>>
       ELSE /\ xpc' = "range"
            /\ xheader' = HeaderOf(<<>>)
            /\ xkeys' = DOMAIN xresp.HeaderEntries.entries
    /\ UNCHANGED <<xresp, xresult>>
    /\ UNCHANGED outsideHeader

\* one iteration of the range over the map, in any order
HdrRange(k) ==
    /\ xpc = "range"
    /\ k \in xkeys
    /\ xheader' = HeaderOf(SetHeader(xheader.entries, k,
                                     xresp.HeaderEntries.entries[k]))
    /\ xkeys' = xkeys \ {k}
    /\ UNCHANGED <<xpc, xresp, xresult>>
    /\ UNCHANGED outsideHeader

\* the range is over
HdrRangeEnd ==
    /\ xpc = "range"
    /\ xkeys = {}
    /\ xpc' = "return"
    /\ UNCHANGED <<xresp, xkeys, xheader, xresult>>
    /\ UNCHANGED outsideHeader

\* return int(resp.StatusCode), header, resp.Body, nil
HdrReturn ==
    /\ xpc = "return"
    /\ xresult' = ResultOf(xresp.StatusCode, xheader, xresp.Body, "nil")
    /\ xpc' = "done"
    /\ UNCHANGED <<xresp, xkeys, xheader>>
    /\ UNCHANGED outsideHeader

NextHeaders ==
    \/ HdrBegin
    \/ \E k \in HeaderNames : HdrRange(k)
    \/ HdrRangeEnd
    \/ HdrReturn

InitHeaders ==
    CoreInit /\ HandshakeInit /\ HeaderInput /\ ServerInit /\ PKIInit

SpecHeaders == InitHeaders /\ [][NextHeaders]_vars

\* ---------------------------------------------------------- specification

Next ==
    \/ \E i \in RotatedIdentities \cup {NoIdentity} : ReplaceIdentity(i)
    \/ StartClusterListener
    \/ StopClusterListener
    \/ StoreLeaderParams
    \/ \E w \in Starters : CallStartForwarding(w)
    \/ \E w \in Starters :
         \/ CallStopForwarding(w)
         \/ StopForwardingHandler(w)
         \/ StopForwardingReturn(w)
    \/ \E w \in Refreshers : \E addr \in Addresses : CallRefresh(w, addr)
    \/ \E w \in Writers :
         \/ WLock(w)
         \/ WAcquire(w)
         \/ ClearCancel(w)
         \/ ClearClose(w)
         \/ ClearNil(w)
         \/ ClearRemove(w)
         \/ StartUnlock(w)
         \/ StartSetup(w)
         \/ RefreshCheckAddr(w)
         \/ RefreshCert(w)
         \/ RefreshListener(w)
         \/ RefreshAddClient(w)
         \/ RefreshDial(w)
         \/ RefreshPublish(w)
         \/ RefreshUnlock(w)
    \/ \E f \in Callers :
         \/ \E r \in Requests : FwdCall(f, r)
         \/ FwdRLock(f)
         \/ FwdCheck(f)
         \/ FwdRewrite(f)
         \/ FwdGenerate(f)
         \/ FwdRPCError(f)
         \/ \E resp \in WireResponses : FwdRPCResponse(f, resp)
         \/ FwdDone(f)

Spec == Init /\ [][Next]_vars

\* One refresher with every caller of ForwardRequest.
NextShared ==
    \/ \E i \in RotatedIdentities : ReplaceIdentity(i)
    \/ StartClusterListener
    \/ \E w \in Refreshers : CallRefresh(w, ActiveAddr)
    \/ \E w \in Refreshers :
         \/ WLock(w)
         \/ WAcquire(w)
         \/ ClearCancel(w)
         \/ ClearClose(w)
         \/ ClearNil(w)
         \/ ClearRemove(w)
         \/ RefreshCheckAddr(w)
         \/ RefreshCert(w)
         \/ RefreshListener(w)
         \/ RefreshAddClient(w)
         \/ RefreshDial(w)
         \/ RefreshPublish(w)
         \/ RefreshUnlock(w)
    \/ \E f \in Forwarders :
         \/ \E r \in Requests : FwdCall(f, r)
         \/ FwdRLock(f)
         \/ FwdCheck(f)
         \/ FwdRewrite(f)
         \/ FwdGenerate(f)
         \/ FwdRPCError(f)
         \/ \E resp \in WireResponses : FwdRPCResponse(f, resp)
         \/ FwdDone(f)

SpecShared == Init /\ [][NextShared]_vars

\* ------------------------------------------------ PKI CA configuration

\* The legacy CA bundle is migrated to issuer/key storage.
CompleteMigration ==
    /\ legacyBundle
    /\ legacyBundle' = FALSE
    /\ UNCHANGED <<issuersLock, issuersConfig, keysConfig, pathVars>>
    /\ UNCHANGED outsidePKI

\* A request is routed to its write handler.
PathCall(h, raw) ==
    /\ ppc[h] = "idle"
    /\ preq' = [preq EXCEPT ![h] = raw]
    /\ pwrites' = [pwrites EXCEPT ![h] = 0]
    /\ ppc' = [ppc EXCEPT ![h] = "lock"]
    /\ UNCHANGED <<issuersLock, storageVars, pnewDefault, pparsed, pentry,
                   pfollowOk, pfollowIssuer, pconfig, presponse, perr>>
    /\ UNCHANGED outsidePKI

\* b.issuersLock.Lock() returning without waiting for the holder.
IssuersLockNoWait(h) ==
    /\ ppc[h] = "lock"
    /\ issuersLock' = h
    /\ ppc' = [ppc EXCEPT ![h] = "migration"]
    /\ UNCHANGED <<storageVars, preq, pnewDefault, pparsed, pentry,
                   pfollowOk, pfollowIssuer, pconfig, presponse, perr,
                   pwrites>>
    /\ UNCHANGED outsidePKI

\* b.issuersLock.Lock(): the first statement of both write handlers.
IssuersLock(h) ==
    /\ ppc[h] = "lock"
    /\ issuersLock = NoHolder
    /\ issuersLock' = h
    /\ ppc' = [ppc EXCEPT ![h] = "migration"]
    /\ UNCHANGED <<storageVars, preq, pnewDefault, pparsed, pentry,
                   pfollowOk, pfollowIssuer, pconfig, presponse, perr,
                   pwrites>>
    /\ UNCHANGED outsidePKI

\* return resp, nil: the value is fixed, the deferred Unlock is pending.
PathReturn(h, resp) ==
    /\ presponse' = [presponse EXCEPT ![h] = resp]
    /\ perr' = [perr EXCEPT ![h] = "nil"]
    /\ ppc' = [ppc EXCEPT ![h] = "unlock"]

\* The migration check that lets every request through.
IssuersCheckMigrationSkipped(h) ==
    /\ h \in IssuerWriters
    /\ ppc[h] = "migration"
    /\ ppc' = [ppc EXCEPT ![h] = "validate"]
    /\ UNCHANGED <<presponse, perr>>
    /\ UNCHANGED <<issuersLock, storageVars, preq, pnewDefault, pparsed,
                   pentry, pfollowOk, pfollowIssuer, pconfig, pwrites>>
    /\ UNCHANGED outsidePKI

\* pathCAIssuersWrite: if b.useLegacyBundleCaStorage() { return ... }
IssuersCheckMigration(h) ==
    /\ h \in IssuerWriters
    /\ ppc[h] = "migration"
    /\ IF legacyBundle
         THEN PathReturn(h, ErrorResponse(MigrationIssuersMsg))
         ELSE /\ ppc' = [ppc EXCEPT ![h] = "validate"]
              /\ UNCHANGED <<presponse, perr>>
    /\ UNCHANGED <<issuersLock, storageVars, preq, pnewDefault, pparsed,
                   pentry, pfollowOk, pfollowIssuer, pconfig, pwrites>>
    /\ UNCHANGED outsidePKI

\* newDefault := data.Get(defaultRef); reject "" and "default".
IssuersValidate(h) ==
    /\ h \in IssuerWriters
    /\ ppc[h] = "validate"
    /\ LET newDefault == FieldGet(PathOf(h), preq[h], defaultRef)
       IN  /\ pnewDefault' = [pnewDefault EXCEPT ![h] = newDefault]
           /\ IF newDefault = "" \/ newDefault = defaultRef
                THEN PathReturn(h, ErrorResponse(InvalidIssuerMsg))
                ELSE /\ ppc' = [ppc EXCEPT ![h] = "resolve"]
                     /\ UNCHANGED <<presponse, perr>>
    /\ UNCHANGED <<issuersLock, storageVars, preq, pparsed, pentry,
                   pfollowOk, pfollowIssuer, pconfig, pwrites>>
    /\ UNCHANGED outsidePKI

\* parsedIssuer, err := sc.resolveIssuerReference(newDefault)
IssuersResolve(h) ==
    /\ h \in IssuerWriters
    /\ ppc[h] = "resolve"
    /\ LET r == ResolveIssuerReference(pnewDefault[h])
       IN  /\ pparsed' = [pparsed EXCEPT ![h] = r.id]
           /\ IF r.err # "nil"
                THEN PathReturn(h, ErrorResponse(ResolveIssuerMsg))
                ELSE /\ ppc' = [ppc EXCEPT ![h] = "fetch"]
                     /\ UNCHANGED <<presponse, perr>>
    /\ UNCHANGED <<issuersLock, storageVars, preq, pnewDefault, pentry,
                   pfollowOk, pfollowIssuer, pconfig, pwrites>>
    /\ UNCHANGED outsidePKI

\* entry, err := sc.fetchIssuerById(parsedIssuer); the read may fail.
IssuersFetch(h) ==
    /\ h \in IssuerWriters
    /\ ppc[h] = "fetch"
    /\ \E failed \in BOOLEAN :
         IF failed
           THEN /\ PathReturn(h, ErrorResponse(FetchIssuerMsg))
                /\ UNCHANGED pentry
           ELSE /\ pentry' = [pentry EXCEPT ![h] = IssuerEntry(pparsed[h])]
                /\ ppc' = [ppc EXCEPT ![h] = "params"]
                /\ UNCHANGED <<presponse, perr>>
    /\ UNCHANGED <<issuersLock, storageVars, preq, pnewDefault, pparsed,
                   pfollowOk, pfollowIssuer, pconfig, pwrites>>
    /\ UNCHANGED outsidePKI

\* followIssuersRaw, followOk := data.GetOk("default_follows_latest_issuer")
IssuersParams(h) ==
    /\ h \in IssuerWriters
    /\ ppc[h] = "params"
    /\ LET got == FieldGetOk(PathOf(h), preq[h], followRef)
       IN  /\ pfollowOk' = [pfollowOk EXCEPT ![h] = got.ok]
           /\ pfollowIssuer' =
                [pfollowIssuer EXCEPT
                   ![h] = IF got.ok THEN ParseBool(got.value) ELSE FALSE]
    /\ ppc' = [ppc EXCEPT ![h] = "getconfig"]
    /\ UNCHANGED <<issuersLock, storageVars, preq, pnewDefault, pparsed,
                   pentry, pconfig, presponse, perr, pwrites>>
    /\ UNCHANGED outsidePKI

\* config, err := sc.getIssuersConfig(); the read may fail.
IssuersGetConfig(h) ==
    /\ h \in IssuerWriters
    /\ ppc[h] = "getconfig"
    /\ \E failed \in BOOLEAN :
         IF failed
           THEN /\ PathReturn(h, ErrorResponse(FetchConfigMsg))
                /\ UNCHANGED pconfig
           ELSE /\ pconfig' = [pconfig EXCEPT ![h] = issuersConfig]
                /\ ppc' = [ppc EXCEPT ![h] = "update"]
                /\ UNCHANGED <<presponse, perr>>
    /\ UNCHANGED <<issuersLock, storageVars, preq, pnewDefault, pparsed,
                   pentry, pfollowOk, pfollowIssuer, pwrites>>
    /\ UNCHANGED outsidePKI

\* b.formatCAIssuerConfigRead(config)
formatCAIssuerConfigRead(config) ==
    [Data |-> [default |-> config.DefaultIssuerId,
               default_follows_latest_issuer |->
                   config.DefaultFollowsLatestIssuer],
     Warnings |-> 0]

\* if len(entry.KeyID) == 0 { response.AddWarning(msg) }
AddKeylessWarning(resp, entry) ==
    IF entry.KeyID = "" THEN [resp EXCEPT !.Warnings = @ + 1] ELSE resp

\* The update that assigns the flag whether or not it was supplied.
IssuersUpdateAlwaysFollow(h) ==
    /\ h \in IssuerWriters
    /\ ppc[h] = "update"
    /\ LET config == [DefaultIssuerId |-> pparsed[h],
                      DefaultFollowsLatestIssuer |-> pfollowIssuer[h]]
       IN  /\ pconfig' = [pconfig EXCEPT ![h] = config]
           /\ presponse' =
                [presponse EXCEPT
                   ![h] = AddKeylessWarning(formatCAIssuerConfigRead(config),
                                            pentry[h])]
    /\ ppc' = [ppc EXCEPT ![h] = "set"]
    /\ UNCHANGED <<issuersLock, storageVars, preq, pnewDefault, pparsed,
                   pentry, pfollowOk, pfollowIssuer, perr, pwrites>>
    /\ UNCHANGED outsidePKI

\* config.DefaultIssuerId = parsedIssuer; the flag only if followOk; then
\* response := b.formatCAIssuerConfigRead(config) and its warning.
IssuersUpdate(h) ==
    /\ h \in IssuerWriters
    /\ ppc[h] = "update"
    /\ LET config ==
             [DefaultIssuerId |-> pparsed[h],
              DefaultFollowsLatestIssuer |->
                  IF pfollowOk[h] THEN pfollowIssuer[h]
                  ELSE pconfig[h].DefaultFollowsLatestIssuer]
       IN  /\ pconfig' = [pconfig EXCEPT ![h] = config]
           /\ presponse' =
                [presponse EXCEPT
                   ![h] = AddKeylessWarning(formatCAIssuerConfigRead(config),
                                            pentry[h])]
    /\ ppc' = [ppc EXCEPT ![h] = "set"]
    /\ UNCHANGED <<issuersLock, storageVars, preq, pnewDefault, pparsed,
                   pentry, pfollowOk, pfollowIssuer, perr, pwrites>>
    /\ UNCHANGED outsidePKI

\* sc.setIssuersConfig(config): it succeeds, fails before the entry is
\* put, or fails after it; then return response, nil.
IssuersSet(h) ==
    /\ h \in IssuerWriters
    /\ ppc[h] = "set"
    /\ \E outcome \in {"ok", "failed", "failed after put"} :
         /\ IF outcome = "failed"
              THEN UNCHANGED <<issuersConfig, pwrites>>
              ELSE /\ issuersConfig' = pconfig[h]
                   /\ pwrites' = [pwrites EXCEPT ![h] = @ + 1]
         /\ PathReturn(h, IF outcome = "ok" THEN presponse[h]
                          ELSE ErrorResponse(UpdateIssuersMsg))
    /\ UNCHANGED <<issuersLock, legacyBundle, keysConfig, preq, pnewDefault,
                   pparsed, pentry, pfollowOk, pfollowIssuer, pconfig>>
    /\ UNCHANGED outsidePKI

\* pathKeyDefaultWrite: if b.useLegacyBundleCaStorage() { return ... }
KeysCheckMigration(h) ==
    /\ h \in KeyWriters
    /\ ppc[h] = "migration"
    /\ IF legacyBundle
         THEN PathReturn(h, ErrorResponse(MigrationKeysMsg))
         ELSE /\ ppc' = [ppc EXCEPT ![h] = "validate"]
              /\ UNCHANGED <<presponse, perr>>
    /\ UNCHANGED <<issuersLock, storageVars, preq, pnewDefault, pparsed,
                   pentry, pfollowOk, pfollowIssuer, pconfig, pwrites>>
    /\ UNCHANGED outsidePKI

\* newDefault := data.Get(defaultRef); reject "" and "default".
KeysValidate(h) ==
    /\ h \in KeyWriters
    /\ ppc[h] = "validate"
    /\ LET newDefault == FieldGet(PathOf(h), preq[h], defaultRef)
       IN  /\ pnewDefault' = [pnewDefault EXCEPT ![h] = newDefault]
           /\ IF newDefault = "" \/ newDefault = defaultRef
                THEN PathReturn(h, ErrorResponse(InvalidKeyMsg))
                ELSE /\ ppc' = [ppc EXCEPT ![h] = "resolve"]
                     /\ UNCHANGED <<presponse, perr>>
    /\ UNCHANGED <<issuersLock, storageVars, preq, pparsed, pentry,
                   pfollowOk, pfollowIssuer, pconfig, pwrites>>
    /\ UNCHANGED outsidePKI

\* parsedKey, err := sc.resolveKeyReference(newDefault)
KeysResolve(h) ==
    /\ h \in KeyWriters
    /\ ppc[h] = "resolve"
    /\ LET r == ResolveKeyReference(pnewDefault[h])
       IN  /\ pparsed' = [pparsed EXCEPT ![h] = r.id]
           /\ IF r.err # "nil"
                THEN PathReturn(h, ErrorResponse(ResolveKeyMsg))
                ELSE /\ ppc' = [ppc EXCEPT ![h] = "set"]
                     /\ UNCHANGED <<presponse, perr>>
    /\ UNCHANGED <<issuersLock, storageVars, preq, pnewDefault, pentry,
                   pfollowOk, pfollowIssuer, pconfig, pwrites>>
    /\ UNCHANGED outsidePKI

\* sc.updateDefaultKeyId(parsedKey), which may fail; then the response.
KeysUpdate(h) ==
    /\ h \in KeyWriters
    /\ ppc[h] = "set"
    /\ \E failed \in BOOLEAN :
         IF failed
           THEN /\ PathReturn(h, ErrorResponse(UpdateKeysMsg))
                /\ UNCHANGED <<keysConfig, pwrites>>
           ELSE /\ keysConfig' = [DefaultKeyId |-> pparsed[h]]
                /\ pwrites' = [pwrites EXCEPT ![h] = @ + 1]
                /\ PathReturn(h, [Data |-> [default |-> pparsed[h]],
                                  Warnings |-> 0])
    /\ UNCHANGED <<issuersLock, legacyBundle, issuersConfig, preq,
                   pnewDefault, pparsed, pentry, pfollowOk, pfollowIssuer,
                   pconfig>>
    /\ UNCHANGED outsidePKI

\* defer b.issuersLock.Unlock(): the handler has returned.
IssuersUnlock(h) ==
    /\ ppc[h] = "unlock"
    /\ issuersLock' = IF issuersLock = h THEN NoHolder ELSE issuersLock
    /\ ppc' = [ppc EXCEPT ![h] = "idle"]
    /\ preq' = [preq EXCEPT ![h] = NoRaw]
    /\ pnewDefault' = [pnewDefault EXCEPT ![h] = ""]
    /\ pparsed' = [pparsed EXCEPT ![h] = ""]
    /\ pentry' = [pentry EXCEPT ![h] = NoEntry]
    /\ pfollowOk' = [pfollowOk EXCEPT ![h] = FALSE]
    /\ pfollowIssuer' = [pfollowIssuer EXCEPT ![h] = FALSE]
    /\ pconfig' = [pconfig EXCEPT ![h] = NoConfig]
    /\ presponse' = [presponse EXCEPT ![h] = NoResponse]
    /\ perr' = [perr EXCEPT ![h] = "none"]
    /\ pwrites' = [pwrites EXCEPT ![h] = 0]
    /\ UNCHANGED storageVars
    /\ UNCHANGED outsidePKI

\* The PKI write handlers next to a caller of ForwardRequest.
NextPKI ==
    \/ CompleteMigration
    \/ \E h \in PKIWriters :
         \/ \E raw \in RawRequests(PathOf(h)) : PathCall(h, raw)
         \/ IssuersLock(h)
         \/ IssuersCheckMigration(h)
         \/ IssuersValidate(h)
         \/ IssuersResolve(h)
         \/ IssuersFetch(h)
         \/ IssuersParams(h)
         \/ IssuersGetConfig(h)
         \/ IssuersUpdate(h)
         \/ IssuersSet(h)
         \/ KeysCheckMigration(h)
         \/ KeysValidate(h)
         \/ KeysResolve(h)
         \/ KeysUpdate(h)
         \/ IssuersUnlock(h)
    \/ \E f \in Callers :
         \/ \E r \in Requests : FwdCall(f, r)
         \/ FwdRLock(f)
         \/ FwdCheck(f)
         \/ FwdDone(f)

SpecPKI == Init /\ [][NextPKI]_vars

\* ----------------------------------------------------------------- claims

AttemptIds == 1..Len(attempts)

\* Connections created and not yet closed.
LiveTransports == {id \in AttemptIds : attempts[id].transport = "open"}

\* Every connection made so far has been cancelled and is no longer open.
AllTornDown ==
    \A id \in AttemptIds :
        attempts[id].ctx = "cancelled" /\ attempts[id].transport # "open"

\* C1: at most one outbound forwarding connection is live in every reachable
\* state, and when a refresh reaches AddClient and the dial, every earlier
\* connection has had its cancel handle invoked and its transport closed.
C1_SingleConnection ==
    /\ Cardinality(LiveTransports) <= 1
    /\ \A w \in Writers :
         wpc[w] \in {"add_client", "dial"} => AllTornDown

\* A second refresh is about to dial after tearing down the first connection.
C1_Witness ==
    \E w \in Writers :
        /\ wpc[w] = "dial"
        /\ Len(attempts) >= 1
        /\ attempts[1].transport = "closed"
        /\ attempts[1].cancels = 1

\* C2: ForwardRequest finding no forwarding client returns ErrCannotForward
\* with status 0, nil headers and nil body, sends no RPC, touches no
\* connection, and leaves the request path and the connection state as is.
C2_CannotForward ==
    [][\A f \in Forwarders :
         (fpc[f] = "check" /\ rpcForwardingClient = NoConn
            /\ fpc'[f] # fpc[f])
         => /\ fpc'[f] = "done"
            /\ fresult'[f].err = "ErrCannotForward"
            /\ fresult'[f].status = 0
            /\ fresult'[f].header.absent
            /\ fresult'[f].body = NilBody
            /\ fsent'[f] = NoConn
            /\ freq'[f] = freq[f]
            /\ UNCHANGED <<connVars, attempts, listenerVars>>]_vars

\* A forward has returned ErrCannotForward.
C2_Witness ==
    \E f \in Forwarders :
        /\ fpc[f] = "done"
        /\ fresult[f].err = "ErrCannotForward"
        /\ fsent[f] = NoConn

\* A forwarder between its RLock and its return.
FwdInside(f) == fpc[f] \in {"check", "rewrite", "gen", "rpc"}

\* A writer between its Lock and its Unlock.
WriterInside(w) ==
    wpc[w] \in {"clear_cancel", "clear_close", "clear_nil", "clear_remove",
                "sf_unlock", "check_addr", "cert", "listener", "add_client",
                "dial", "publish", "unlock"}

\* The (connection, client, context, cancel) tuple is whole: all absent, or
\* all of one connection that is neither cancelled nor closed.
TupleWhole ==
    \/ /\ rpcClientConn = NoConn
       /\ rpcForwardingClient = NoConn
       /\ rpcClientConnContext = NoConn
       /\ rpcClientConnCancelFunc = NoConn
    \/ /\ rpcClientConn # NoConn
       /\ rpcForwardingClient = rpcClientConn
       /\ rpcClientConnContext = rpcClientConn
       /\ rpcClientConnCancelFunc = rpcClientConn
       /\ attempts[rpcClientConn].ctx = "live"
       /\ attempts[rpcClientConn].transport = "open"

\* C3: no ForwardRequest is inside its read-locked region while a refresh or
\* a clear is inside its write-locked region; a forward sees a whole tuple,
\* and an RPC in flight is on a connection no teardown has cancelled or closed.
C3_AtomicTransition ==
    \A f \in Forwarders :
        /\ FwdInside(f) => /\ \A w \in Writers : ~WriterInside(w)
                           /\ TupleWhole
        /\ fpc[f] = "rpc" => /\ fsent[f] # NoConn
                             /\ fsent[f] = rpcForwardingClient
                             /\ attempts[fsent[f]].ctx = "live"
                             /\ attempts[fsent[f]].transport = "open"

\* A forward is in its RPC while a refresh waits for the write lock.
C3_Witness ==
    \E f \in Forwarders, w \in Writers :
        /\ fpc[f] = "rpc"
        /\ wpc[w] = "lockwait"

\* The four fields of the connection tuple are absent.
NoConnection ==
    /\ rpcClientConn = NoConn
    /\ rpcClientConnContext = NoConn
    /\ rpcClientConnCancelFunc = NoConn
    /\ rpcForwardingClient = NoConn

\* C5 as stated: once startForwarding, or a refresh with an empty address,
\* has returned, a ForwardRequest finds no client to forward on, until a
\* later refresh with a non-empty address succeeds.
C5_AfterReturn ==
    selfActive =>
        \A f \in Forwarders :
            /\ fpc[f] = "check" => rpcForwardingClient = NoConn
            /\ fpc[f] \notin {"rewrite", "gen", "rpc"}

\* C5 amended: once the write-locked clear of startForwarding, or a refresh
\* with an empty address, has completed, every ForwardRequest finds no
\* client and sends no RPC, until a refresh with a non-empty address succeeds.
C5_AfterClear ==
    cleared =>
        \A f \in Forwarders :
            /\ fpc[f] = "check" => rpcForwardingClient = NoConn
            /\ fpc[f] \notin {"rewrite", "gen", "rpc"}

\* A forward checks for a client after a connection was cleared away.
C5_Witness ==
    \E f \in Forwarders :
        /\ cleared
        /\ fpc[f] = "check"
        /\ Len(attempts) >= 1
        /\ attempts[1].transport = "closed"

\* C6: a refresh returning the dial error leaves the four fields absent, the
\* context of the attempt cancelled, no transport open, no heartbeat
\* started, and so no client for a following ForwardRequest.
C6_DialFailureCleared ==
    \A w \in Writers :
        (wpc[w] = "unlock" /\ wret[w] = "ErrDial")
        => /\ NoConnection
           /\ wctx[w] # NoConn
           /\ attempts[wctx[w]].ctx = "cancelled"
           /\ attempts[wctx[w]].transport = "failed"
           /\ ~attempts[wctx[w]].heartbeat
           /\ LiveTransports = {}

\* A refresh that replaced an earlier connection returns the dial error.
C6_Witness ==
    \E w \in Writers :
        /\ wpc[w] = "unlock"
        /\ wret[w] = "ErrDial"
        /\ wctx[w] = 2
        /\ attempts[1].transport = "closed"

\* C7 as stated: a refresh with a non-empty address returns an error when
\* the local identity is absent or the cluster listener is missing, and then
\* no connection is established and no client identity is registered.
C7_FailsHard ==
    \A w \in Writers :
        (/\ wpc[w] = "unlock"
         /\ waddr[w] = ActiveAddr
         /\ (wcert[w] = NoIdentity \/ ~clusterListener))
        => /\ wret[w] \notin {"nil", "none"}
           /\ NoConnection
           /\ ~alpnClient

ClearPcs == {"clear_cancel", "clear_close", "clear_nil", "clear_remove"}

\* C8: clearForwardingClients run with no connection changes no connection
\* state; it always ends with the four fields absent, so a second run in a
\* row changes nothing; cancel and close run at most once per connection.
C8_ClearIdempotent ==
    /\ [][(NoConnection /\ \E w \in Writers : wpc[w] \in ClearPcs)
            => UNCHANGED <<connVars, attempts>>]_vars
    /\ [](\A w \in Writers :
            wpc[w] \in {"sf_unlock", "check_addr"} => NoConnection)
    /\ [](\A id \in AttemptIds :
            attempts[id].cancels <= 1 /\ attempts[id].closes <= 1)

\* A clear runs again after an earlier clear tore a connection down.
C8_Witness ==
    \E w \in Writers :
        /\ wpc[w] = "clear_remove"
        /\ cleared
        /\ NoConnection
        /\ Len(attempts) >= 1
        /\ attempts[1].cancels = 1
        /\ attempts[1].closes = 1

\* C9: a refresh with an empty address returns nil having torn down any
\* connection: the four fields are absent, nothing is live, no client
\* identity is registered and no dial was made.
C9_EmptyAddress ==
    \A w \in Writers :
        (wpc[w] = "unlock" /\ waddr[w] = EmptyAddr)
        => /\ wret[w] = "nil"
           /\ NoConnection
           /\ AllTornDown
           /\ wctx[w] = NoConn
           /\ wcert[w] = Unread
           /\ ~alpnClient

\* A refresh with an empty address returns after tearing a connection down,
\* with the identity and the listener present.
C9_Witness ==
    \E w \in Writers :
        /\ wpc[w] = "unlock"
        /\ waddr[w] = EmptyAddr
        /\ Len(attempts) >= 1
        /\ attempts[Len(attempts)].transport = "closed"
        /\ clusterListener
        /\ localClusterParsedCert # NoIdentity

\* C10: the result of a successful forward carries the status, the header
\* multimap and the body of the wire response: the same header names, each
\* with its full value list in order, and no header map when the response
\* has no header entry.
C10_VerbatimResponse ==
    xpc = "done" =>
        /\ xresult.err = "nil"
        /\ xresult.status = xresp.StatusCode
        /\ xresult.body = xresp.Body
        /\ xresult.header.absent = xresp.HeaderEntries.absent
        /\ DOMAIN xresult.header.entries = DOMAIN xresp.HeaderEntries.entries
        /\ \A n \in DOMAIN xresp.HeaderEntries.entries :
             xresult.header.entries[n] = xresp.HeaderEntries.entries[n]
        /\ SuccessResult(xresp) = xresult

\* A response with two header names, one carrying two values in order, has
\* been turned into a result.
C10_Witness ==
    /\ xpc = "done"
    /\ DOMAIN xresp.HeaderEntries.entries = HeaderNames
    /\ xresp.HeaderEntries.entries["X-Echo"] = <<"2", "1">>
    /\ xresult.header.entries["X-Echo"] = <<"2", "1">>

\* C4: whatever identity replacement runs beside a handshake callback, the
\* certificate bytes, the parsed certificate (the one whose issuer was
\* matched and the Leaf returned) and the private key that the callback
\* returns belong to one identity.
C4_NeverMixed ==
    (hpc = "done" /\ hret.cert # NoIdentity)
    => /\ hret.key = hret.cert
       /\ hret.leaf = hret.cert
       /\ hop = "ClientLookup" => hparsed = hret.cert

\* --------------------------------------------- claims on the TLS callbacks

\* The whole certificate of identity i, as a callback returns it.
CertificateOf(i) ==
    [cert |-> i, key |-> i, leaf |-> i, name |-> "", err |-> "nil"]

IdentityPresent == localClusterCert # NoIdentity

\* C11: ClientLookup returns this node's certificate exactly when the
\* identity is present and its issuer is among the peer's acceptable CAs; in
\* every other case it returns no certificate and no error.
C11_ClientLookupContract ==
    (hpc = "done" /\ hop = "ClientLookup") =>
        /\ hret.err = "nil"
        /\ IF IdentityPresent /\ IssuerOf(localClusterParsedCert) \in hcas
           THEN hret = CertificateOf(localClusterCert)
           ELSE hret = NoCertificate

C11_Witness ==
    /\ hpc = "done"
    /\ hop = "ClientLookup"
    /\ IdentityPresent
    /\ hcas = {IssuerOf("A"), IssuerOf("B")}
    /\ hret = CertificateOf(localClusterCert)

\* C12 as stated: with the identity absent, ServerLookup and ClientLookup
\* both return no certificate and no error value.
C12_DeclineNoError ==
    (hpc = "done" /\ hop \in {"ClientLookup", "ServerLookup"}
       /\ ~IdentityPresent) =>
        hret = NoCertificate

\* C12 amended: with the identity absent, both callbacks return no
\* certificate; ClientLookup returns no error, and ServerLookup returns the
\* error "got forwarding connection but no local cert".
C12_DeclineAbsent ==
    (hpc = "done" /\ hop \in {"ClientLookup", "ServerLookup"}
       /\ ~IdentityPresent) =>
        /\ hret.cert = NoIdentity
        /\ hret.key = NoIdentity
        /\ hret.leaf = NoIdentity
        /\ hop = "ClientLookup" => hret.err = "nil"
        /\ hop = "ServerLookup" =>
               hret.err = "got forwarding connection but no local cert"

C12_Witness ==
    /\ hpc = "done"
    /\ hop = "ServerLookup"
    /\ ~IdentityPresent
    /\ hret.err # "nil"

\* ----------------------------------------- claims on the forwarding server

\* No close signal has been given.
ListenerUp == \A c \in Watched : closeCh[c] = "open"

\* C13: with the listener still up, an RPC that was in flight when Stop was
\* called and needed less than the drain interval is never cut short: while
\* it is in flight its connection is open, the stop signal is not raised and
\* the RPC server is not stopped.
C13_GracefulDrain ==
    \A c \in Conns :
        (rpcShort[c] /\ ListenerUp) =>
            /\ rpc[c] # "aborted"
            /\ InFlight(c) =>
                  /\ tlsConn[c] = "open"
                  /\ stopCh = "open"
                  /\ fwRPCServer = "serving"

C13_Witness ==
    \E c \in Conns :
        /\ rpcShort[c]
        /\ rpc[c] = "completed"
        /\ ListenerUp
        /\ tlsConn[c] = "closed"
        /\ fwRPCServer = "stopped"

\* C14 as stated: Stop raises the stop signal before its sleep begins and
\* stops the RPC server only after the sleep.
C14_SignalSleepStop ==
    /\ spc = "sleep" => stopCh = "closed"
    /\ fwRPCServer = "stopped" => spc = "returned"

\* C14 amended: Stop sleeps first, raises the stop signal only once the
\* sleep is over, and stops the RPC server only after the signal.
C14_SleepSignalStop ==
    /\ spc \in {"idle", "sleep"} =>
          (stopCh = "open" /\ fwRPCServer = "serving")
    /\ stopCh = "closed" => (sleepLeft = 0 /\ spc \in {"hardstop", "returned"})
    /\ fwRPCServer = "stopped" => (stopCh = "closed" /\ spc = "returned")

C14_Witness ==
    /\ spc = "hardstop"
    /\ sleepLeft = 0
    /\ stopCh = "closed"
    /\ fwRPCServer = "serving"

Served(c) == handed[c] \in {"early", "late"}

\* Goroutines of Handoff that have not yet called shutdownWg.Done().
Unfinished(c) ==
    (IF watcher[c] \in {"select", "close"} THEN 1 ELSE 0)
  + (IF serve[c] \in {"serving", "returned"} THEN 1 ELSE 0)

RECURSIVE SumUnfinished(_)
SumUnfinished(S) ==
    IF S = {} THEN 0
    ELSE LET c == CHOOSE x \in S : TRUE
         IN Unfinished(c) + SumUnfinished(S \ {c})

BothFinished(c) == watcher[c] = "finished" /\ serve[c] = "finished"

\* C15: a connection handed off with HA has a watcher and a serve loop, is
\* closed at most once and exactly once when both have finished, the barrier
\* counts the goroutines still running, and once closeCh or stopCh is closed
\* or serving has ended both goroutines finish.
C15_HandoffTasks ==
    /\ [](/\ shutdownWg = SumUnfinished(Watched)
          /\ \A c \in Conns :
                Served(c) =>
                   /\ watcher[c] # "none"
                   /\ serve[c] # "none"
                   /\ closes[c] <= 1
                   /\ BothFinished(c) =>
                         (closes[c] = 1 /\ tlsConn[c] = "closed"))
    /\ \A c \in Conns :
          (Served(c) /\ (\/ closeCh[c] = "closed"
                         \/ stopCh = "closed"
                         \/ serve[c] \in {"returned", "finished"}))
             ~> BothFinished(c)

C15_Witness ==
    \E c \in Conns :
        /\ handed[c] = "early"
        /\ BothFinished(c)
        /\ ListenerUp
        /\ stopCh = "open"
        /\ shutdownWg = 0

\* C16: a handler without HA closes every connection handed to it, starts
\* neither goroutine, leaves the barrier alone and serves no RPC on it.
C16_NoHADropsConnection ==
    /\ [](~rf_ha =>
            /\ shutdownWg = 0
            /\ \A c \in Conns :
                  /\ handed[c] \in {"no", "dropped"}
                  /\ watcher[c] = "none"
                  /\ serve[c] = "none"
                  /\ quitCh[c] = "none"
                  /\ rpc[c] = "none"
                  /\ handed[c] = "dropped" =>
                        (tlsConn[c] = "closed" /\ closes[c] = 1))
    /\ [][\A c \in Conns :
            (handed[c] = "no" /\ handed'[c] = "dropped") =>
                shutdownWg' = shutdownWg]_vars

C16_Witness ==
    \E c \in Conns :
        /\ ~rf_ha
        /\ handed[c] = "dropped"
        /\ tlsConn[c] = "closed"

\* C20: the stop signal, once raised, stays raised; Stop, once returned,
\* leaves the RPC server stopped for good; and a connection handed off after
\* the signal finds the signal raised and is closed by its watcher.
C20_StoppedTerminal ==
    /\ [][stopCh = "closed" => stopCh' = "closed"]_vars
    /\ [][spc = "returned" =>
            (spc' = "returned" /\ fwRPCServer' = "stopped")]_vars
    /\ [](\A c \in Conns : handed[c] = "late" => stopCh = "closed")
    /\ \A c \in Conns :
          (handed[c] = "late") ~>
              (watcher[c] = "finished" /\ tlsConn[c] = "closed")

C20_Witness ==
    \E c \in Conns :
        /\ handed[c] = "late"
        /\ watcher[c] = "finished"
        /\ tlsConn[c] = "closed"
        /\ ListenerUp
        /\ serve[c] = "serving"

\* ------------------------------------- claims on setup, client and paths

\* C17: startForwarding leaves its write-locked clear with no connection;
\* its setup registers a handler exactly when HA is enabled and a cluster
\* listener exists, and otherwise changes no registration; a handler is
\* registered by no other step, and its RPC server carries the forwarding
\* service only with HA.
C17_StartForwarding ==
    /\ [](\A w \in Starters :
            wpc[w] = "sf_unlock" =>
                (lockWriter = w /\ NoConnection /\ AllTornDown))
    /\ [][\A w \in Starters :
            (wpc[w] = "sf_setup" /\ wpc'[w] = "idle") =>
                IF ha /\ clusterListener
                THEN alpnHandler'
                ELSE UNCHANGED <<alpnHandler, fwRPCService>>]_vars
    /\ [][(alpnHandler' /\ ~alpnHandler) =>
            \E w \in Starters : wpc[w] = "sf_setup" /\ wpc'[w] = "idle"]_vars
    /\ []((alpnHandler \/ fwRPCService) => ha)
    /\ [](fwRPCService => alpnHandler)

C17_Witness ==
    /\ ha
    /\ alpnHandler
    /\ fwRPCService
    /\ WritersIdle
    /\ LiveTransports = {}
    /\ \E id \in AttemptIds : attempts[id].closes = 1

\* C18 as stated: whenever no refresh or startForwarding is running, the
\* client identity is registered with the listener only if a forwarding
\* connection exists.
C18_ClientLifecycle ==
    WritersIdle => (alpnClient => rpcForwardingClient # NoConn)

\* C19: the wire request handed to the forwarding client carries the
\* original request path, and when ForwardRequest has returned the request
\* is as it was passed in.
C19_PathRestored ==
    \A f \in Forwarders :
        /\ fpc[f] = "rpc" =>
              (fsent[f] # NoConn /\ fwire[f] \in {r.orig : r \in Requests})
        /\ fpc[f] = "done" => freq[f] \in Requests

C19_Witness ==
    \E f \in Forwarders :
        /\ fpc[f] = "done"
        /\ fwire[f] # NoPath
        /\ fresult[f].err = "error during forwarding RPC request"
        /\ freq[f] \in Requests

\* --------------------------------------- claims on teardown and the lock

\* clearForwardingClients has just returned to its caller.
JustCleared(w) == wpc[w] \in {"sf_unlock", "check_addr"}

\* C21: when clearForwardingClients has returned the four fields are absent
\* and no client identity is registered; a transport is closed only after its
\* context was cancelled, and the clear unregisters the client identity only
\* when no transport is open any more.
C21_ClearOrder ==
    /\ [](\A w \in Writers :
            /\ JustCleared(w) =>
                  (NoConnection /\ ~alpnClient /\ AllTornDown)
            /\ wpc[w] = "clear_close" =>
                  \A id \in AttemptIds : attempts[id].ctx = "cancelled"
            /\ wpc[w] \in {"clear_nil", "clear_remove"} =>
                  LiveTransports = {})
    /\ [][\A id \in AttemptIds :
            (attempts[id].transport = "open"
               /\ attempts'[id].transport = "closed")
            => (attempts[id].ctx = "cancelled" /\ attempts[id].cancels = 1)]_vars
    /\ [][(alpnClient /\ ~alpnClient' /\ clusterListener')
            => (LiveTransports = {} /\ NoConnection)]_vars

C21_Witness ==
    \E w \in Writers :
        /\ JustCleared(w)
        /\ ~alpnClient
        /\ clusterListener
        /\ \E id \in AttemptIds :
              /\ attempts[id].heartbeat
              /\ attempts[id].cancels = 1
              /\ attempts[id].closes = 1

\* C22 as stated: a forward blocked in its RPC never keeps a teardown that
\* has called Lock() from going on to cancel the connection.
C22_TeardownNotBlocked ==
    \A w \in Writers, f \in Forwarders :
        (wpc[w] = "lockwait" /\ fpc[f] = "rpc") => ENABLED WAcquire(w)

\* C23: while a refresh is dialing, publishing or about to unlock it holds
\* the write lock and no forward is inside ForwardRequest's locked region; a
\* forward gets past RLock only with no writer pending, and has no result
\* before; and when the refresh unlocks, the forwarding client is the one it
\* dialed on success and absent otherwise.
C23_DialUnderLock ==
    /\ [](\A w \in Refreshers :
            wpc[w] \in {"dial", "publish", "unlock"} =>
                /\ lockWriter = w
                /\ lockReaders = {}
                /\ \A f \in Forwarders :
                      /\ ~FwdInside(f)
                      /\ fpc[f] = "rlock" => fresult[f] = NoResult)
    /\ [][\A f \in Forwarders :
            (fpc[f] = "rlock" /\ fpc'[f] # "rlock") =>
                (lockWriter = NoWriter /\ fpc'[f] = "check"
                   /\ fresult'[f] = NoResult)]_vars
    /\ [][\A w \in Refreshers :
            (wpc[w] = "unlock" /\ wpc'[w] = "idle") =>
                rpcForwardingClient' =
                    (IF wret[w] = "nil" THEN wctx[w] ELSE NoConn)]_vars

C23_Witness ==
    \E w \in Refreshers, f \in Forwarders :
        /\ wpc[w] = "dial"
        /\ fpc[f] = "rlock"

\* ------------------------------------------- claims on concurrent forwards

\* The step of ForwardRequest that caller f is at can be taken.
CanStep(f) ==
    CASE fpc[f] = "rlock" -> ENABLED FwdRLock(f)
      [] fpc[f] = "check" -> ENABLED FwdCheck(f)
      [] fpc[f] = "rewrite" -> ENABLED FwdRewrite(f)
      [] fpc[f] = "gen" -> ENABLED FwdGenerate(f)
      [] fpc[f] = "rpc" -> ENABLED FwdRPCError(f)
                             /\ \A resp \in WireResponses :
                                   ENABLED FwdRPCResponse(f, resp)
      [] OTHER -> TRUE

\* C24: with no writer waiting for or holding the write lock, every forward
\* can take its next step, whatever the other forwards are doing: a forward
\* in its RPC keeps no other one from starting or from completing.
C24_ForwardsShare ==
    \A f \in Forwarders : lockWriter = NoWriter => CanStep(f)

\* Two forwards are in their RPC on the one connection.
C24_Witness ==
    \E f, g \in Forwarders :
        /\ f # g
        /\ fpc[f] = "rpc"
        /\ fpc[g] = "rpc"
        /\ fsent[f] = fsent[g]
        /\ LiveTransports = {fsent[f]}

\* C25: a call of ForwardRequest issues at most one RPC; a call that returns
\* the RPC failure has issued one RPC and incremented the error metric once,
\* and returns status 0 with no header and no body; any other call leaves the
\* metric alone; and no step of a forward changes the connection.
C25_NoRetry ==
    /\ [](\A f \in Forwarders :
            /\ frpcs[f] <= 1
            /\ ferrors[f] <= 1
            /\ fpc[f] = "done" =>
                  IF ferrors[f] = 1
                  THEN /\ frpcs[f] = 1
                       /\ fresult[f] =
                            ResultOf(0, NoHeader, NilBody,
                                     "error during forwarding RPC request")
                  ELSE fresult[f].err # "error during forwarding RPC request")
    /\ [][(fpc' # fpc) => UNCHANGED <<connVars, attempts>>]_vars

C25_Witness ==
    \E f \in Forwarders :
        /\ fpc[f] = "done"
        /\ ferrors[f] = 1
        /\ frpcs[f] = 1
        /\ rpcForwardingClient # NoConn
        /\ rpcForwardingClient \in LiveTransports

\* ------------------------------------------------- claims on stopForwarding

\* C26: stopForwarding removes the handler registered under the forwarding
\* tag when a listener exists and changes nothing else: not the connection,
\* the forwarding client, the client identity's registration or the listener;
\* when it has returned, a second call would change nothing.
C26_StopForwarding ==
    /\ [][\A w \in Starters :
            (wpc[w] = "stop_handler" /\ wpc'[w] = "stop_done") =>
                /\ alpnHandler' = (alpnHandler /\ ~clusterListener)
                /\ UNCHANGED <<connVars, attempts, clusterLeaderParams,
                               alpnClient, clusterListener, identityVars,
                               lockVars>>]_vars
    /\ [](\A w \in Starters :
            wpc[w] = "stop_done" =>
                /\ StopHandler(clusterListener, alpnHandler) = alpnHandler
                /\ StopHandler(clusterListener, fwRPCService) = fwRPCService
                /\ ~alpnHandler)

\* stopForwarding has removed nothing but the handler a startForwarding had
\* registered, with a connection up.
C26_Witness ==
    \E w \in Starters :
        /\ wpc[w] = "stop_done"
        /\ clusterListener
        /\ ha
        /\ ~alpnHandler
        /\ alpnClient
        /\ rpcForwardingClient # NoConn
        /\ rpcForwardingClient \in LiveTransports

\* ------------------------------------------------- claims on the watchers

\* C27: once the stop signal is raised every connection being served is
\* closed by its watcher, whatever its serve loop does; a connection whose
\* close signal is given is closed; and while the stop signal is not raised a
\* served connection is closed only if its own close signal was given.
C27_WatcherCloses ==
    /\ \A c \in Watched :
          (stopCh = "closed" /\ Served(c)) ~>
              (watcher[c] = "finished" /\ tlsConn[c] = "closed")
    /\ \A c \in Watched :
          (closeCh[c] = "closed" /\ Served(c)) ~>
              (watcher[c] = "finished" /\ tlsConn[c] = "closed")
    /\ [](\A c \in Watched :
            (Served(c) /\ stopCh = "open" /\ watcher[c] # "select") =>
                closeCh[c] = "closed")
    /\ [](\A c \in Watched :
            (Served(c) /\ tlsConn[c] = "closed") =>
                (watcher[c] = "finished" /\ closes[c] = 1))

\* The close signal of one connection has closed it and left the other open.
C27_Witness ==
    \E c, d \in Watched :
        /\ c # d
        /\ stopCh = "open"
        /\ Served(c)
        /\ Served(d)
        /\ closeCh[c] = "closed"
        /\ tlsConn[c] = "closed"
        /\ closeCh[d] = "open"
        /\ tlsConn[d] = "open"
        /\ serve[c] = "serving"

\* ------------------------------------------ PKI CA configuration claims

\* A call has returned the error response of one of the rejections: the
\* migration is incomplete, the reference is empty or "default", or the
\* reference could not be resolved or fetched.
RejectionMsgs ==
    {MigrationIssuersMsg, MigrationKeysMsg, InvalidIssuerMsg, InvalidKeyMsg,
     ResolveIssuerMsg, ResolveKeyMsg, FetchIssuerMsg}
Rejected(h) ==
    /\ ppc[h] = "unlock"
    /\ IsError(presponse[h])
    /\ presponse[h].Data.error \in RejectionMsgs

\* The check the call is about to make can only fail.
MustReject(h) ==
    \/ ppc[h] = "migration" /\ legacyBundle
    \/ /\ ppc[h] = "validate"
       /\ FieldGet(PathOf(h), preq[h], defaultRef) \in {"", defaultRef}
    \/ /\ ppc[h] = "resolve"
       /\ h \in IssuerWriters
       /\ ResolveIssuerReference(pnewDefault[h]).err # "nil"
    \/ /\ ppc[h] = "resolve"
       /\ h \in KeyWriters
       /\ ResolveKeyReference(pnewDefault[h]).err # "nil"

\* C28: pathCAIssuersWrite and pathKeyDefaultWrite reject a request while
\* the migration is incomplete, when the new default is empty or "default",
\* and when the reference cannot be resolved or fetched: each such call
\* returns an error response with a nil Go error, leaves the stored issuers
\* and keys configuration as it was, and has made no configuration write.
C28_RejectedNoWrite ==
    /\ [](\A h \in PKIWriters :
            Rejected(h) => pwrites[h] = 0 /\ perr[h] = "nil")
    /\ [][\A h \in PKIWriters :
            MustReject(h) /\ ppc'[h] # ppc[h]
              => /\ Rejected(h)'
                 /\ UNCHANGED <<issuersConfig, keysConfig>>]_vars
    /\ [][\A h \in PKIWriters :
            Rejected(h)' /\ ~Rejected(h)
              => UNCHANGED <<issuersConfig, keysConfig>>]_vars

\* A reference that does not resolve is rejected after an earlier write
\* has set the configuration, which stays as that write left it.
C28_Witness ==
    \E h \in IssuerWriters :
      /\ Rejected(h)
      /\ presponse[h] = ErrorResponse(ResolveIssuerMsg)
      /\ issuersConfig.DefaultIssuerId = "id-a"
      /\ pwrites[h] = 0

\* Positions between b.issuersLock.Lock() and the deferred Unlock.
InWrite(h) ==
    ppc[h] \in {"migration", "validate", "resolve", "fetch", "params",
                "getconfig", "update", "set", "unlock"}

\* C29: both write handlers hold the one issuers lock from before the
\* migration check until they return, so at most one of them is inside at
\* a time and the configuration a handler read is still the stored one when
\* it writes (no lost update); the issuers lock and the forwarding lock are
\* independent: no step changes both, a free issuers lock can be taken
\* whatever the state of the forwarding lock, and ForwardRequest can take
\* its read lock whatever the state of the issuers lock.
C29_WritesSerialized ==
    /\ [](\A h \in PKIWriters : InWrite(h) <=> issuersLock = h)
    /\ [](\A h, g \in PKIWriters : InWrite(h) /\ InWrite(g) => h = g)
    /\ [](\A h \in IssuerWriters :
            /\ ppc[h] = "update" => pconfig[h] = issuersConfig
            /\ ppc[h] = "set" /\ ~pfollowOk[h]
                 => pconfig[h].DefaultFollowsLatestIssuer =
                      issuersConfig.DefaultFollowsLatestIssuer)
    /\ [][/\ issuersLock' # issuersLock => UNCHANGED lockVars
          /\ lockVars' # lockVars => UNCHANGED issuersLock]_vars
    /\ [](\A h \in PKIWriters :
            ppc[h] = "lock" /\ issuersLock = NoHolder
              => ENABLED IssuersLock(h))
    /\ [](\A f \in Callers :
            fpc[f] = "rlock" /\ RLockFree => ENABLED FwdRLock(f))

\* One write is about to store its configuration, another waits for the
\* issuers lock, and a forward holds the forwarding lock meanwhile.
C29_Witness ==
    \E h, g \in PKIWriters :
      /\ ppc[h] = "set"
      /\ issuersLock = h
      /\ ppc[g] = "lock"
      /\ lockReaders # {}

\* The flag the request carries for default_follows_latest_issuer on a
\* route that declares the field.
SuppliesFollow(h) ==
    /\ followRef \in Schema(PathOf(h))
    /\ preq[h][followRef] # NotSupplied

\* C30: a successful pathCAIssuersWrite stores the resolved issuer id as
\* the default; it stores the request's default_follows_latest_issuer when
\* the request supplies that field and leaves the stored flag as it was
\* when it does not, as on root/replace; the response carries exactly the
\* configuration that was stored.
C30_SuccessfulWrite ==
    [][\A h \in IssuerWriters :
         ppc[h] = "set" /\ ppc'[h] = "unlock" /\ ~IsError(presponse'[h])
           => /\ issuersConfig'.DefaultIssuerId =
                   ResolveIssuerReference(
                     FieldGet(PathOf(h), preq[h], defaultRef)).id
              /\ issuersConfig'.DefaultFollowsLatestIssuer =
                   IF SuppliesFollow(h)
                     THEN ParseBool(preq[h][followRef])
                     ELSE issuersConfig.DefaultFollowsLatestIssuer
              /\ PathOf(h) = ReplaceRootPath
                   => issuersConfig'.DefaultFollowsLatestIssuer =
                        issuersConfig.DefaultFollowsLatestIssuer
              /\ presponse'[h].Data =
                   [default |-> issuersConfig'.DefaultIssuerId,
                    default_follows_latest_issuer |->
                        issuersConfig'.DefaultFollowsLatestIssuer]]_vars

\* root/replace has made "next" the default while the flag, set by an
\* earlier config/issuers write, is still on.
C30_Witness ==
    /\ ppc["i2"] = "unlock"
    /\ ~IsError(presponse["i2"])
    /\ issuersConfig = [DefaultIssuerId |-> "id-next",
                        DefaultFollowsLatestIssuer |-> TRUE]
    /\ presponse["i2"].Data.default_follows_latest_issuer

====
